---- MODULE Spec2Model ----
(***************************************************************************)
(* Trust & Audit Integrity Subsystem of Academic-Transcript.               *)
(*                                                                         *)
(* Part 1  SlidingWindowLimiter: the SQL function                          *)
(*         check_verification_rate_limit over verification_rate_limits.    *)
(*                                                                         *)
(* Times of the limiter are whole minutes.  NULL is the SQL null of a      *)
(* timestamp column.                                                       *)
(***************************************************************************)
EXTENDS Integers, Sequences, FiniteSets, TLC

\* ------------------------------------------------------------------ bounds
\* Last minute the limiter's clock reaches.
MaxNow == 1
\* Calls of check_verification_rate_limit made in one behaviour.
MaxCalls == 22
\* Scenario client: latest minute of its first call, longest pause between calls.
MaxStart == 2
MaxGap == 3
\* Burst client: calls it makes in one behaviour, and pauses between its bursts.
MaxBurstCalls == 22
MaxPauses == 2
\* Requests verify-transcript receives in one behaviour.
MaxVTRequests == 22
\* Last second the clock of verify-with-limit reaches when it starts at 0
\* (the runs in which the 5 s window of the recent attempts passes start
\* after it, at QsStart), and the requests verify-with-limit and
\* reset-verification-count receive in one behaviour.
MaxQNow == 3
MaxQRequests == 3
\* Largest verification_limit a student is configured with.
MaxLimit == 2
\* Seconds that pass during the quota scenario.
MaxQsTicks == 3
\* Requests verify-transcript receives next to verify-with-limit.
MaxRjRequests == 2
\* Last millisecond the clock of blockchain-audit reaches, and the requests
\* blockchain-audit receives in one behaviour.
MaxANow == 2
MaxARequests == 3
\* Requests log_event, log_security_event and blockchain-auth receive in one
\* behaviour when they run side by side.
MaxApRequests == 2
\* Longest list a MerkleTree is built over.
MaxLeaves == 6
\* Requests that store an event next to the process_batch requests that are
\* to seal it.
MaxSealEvents == 1
\* Calls of createAuditChain made on their own in one behaviour, and the
\* longest event list of such a call.
MaxAcCalls == 2
MaxChainEvents == 2

\* ------------------------------------------------------- program constants
\* student.verification_limit || 5
DefaultLimit == 5
\* Date.now() - 5000, in seconds
SuppressWindow == 5
\* .limit(5) of the recent-attempts query
RecentLimit == 5
\* IF current_attempts >= 20
RateThreshold == 20
\* now() - INTERVAL '1 hour', in minutes
Window == 60
\* now() + INTERVAL '1 hour', in minutes
BlockDuration == 60
NULL == -1

\* ip_address values: a client address, and the fallback of verify-transcript
Keys == {"203.0.113.7", "unknown"}
\* The key the concurrent callers of the limiter share.
RLKeys == {"203.0.113.7"}
Callers == {1, 2}

VARIABLES
  rlNow,          \* the database clock (minutes)
  rate_limits,    \* verification_rate_limits: one row per ip_address (UNIQUE)
  rl,             \* the running calls of check_verification_rate_limit
  rlCalls,        \* calls started so far
  rlAllowed       \* per key: calls that returned TRUE so far

rlVars == <<rlNow, rate_limits, rl, rlCalls, rlAllowed>>

VARIABLES
  scStart,        \* the scenario client: minute of its first call
  scLog,          \* the scenario client: what each of its calls returned
  scTimes         \* the scenario client: the minute of each of its calls

scVars == <<scStart, scLog, scTimes>>

VARIABLES
  vt,             \* the running verify-transcript requests
  vtRequests,     \* verify-transcript requests received so far
  audit_logs      \* audit_logs: the rows in insertion order

vtVars == <<vt, vtRequests>>

VARIABLES
  qNow,                  \* the clock of verify-with-limit (seconds)
  students,              \* students: verification_count, verification_limit
  verification_attempts, \* verification_attempts: rows in insertion order
  vw,                    \* the running verify-with-limit requests
  rs,                    \* the running reset-verification-count request
  qRequests,             \* requests received so far (both functions)
  qStats                 \* what the requests answered, counted

qVars == <<qNow, students, verification_attempts, vw, rs, qRequests, qStats>>

VARIABLES
  aNow,           \* the clock of blockchain-audit (milliseconds)
  audit_batches,  \* audit_batches: the rows in insertion order
  pb,             \* the running process_batch requests
  ac,             \* createAuditChain applied on its own: arguments, result
  aRequests,      \* requests received so far that store an audit event
  mk,             \* a MerkleTree under test: its data and what it returned
  le,             \* the latest log_event request: what it stored and answered
  ba              \* the running blockchain-auth request

VARIABLES
  bvNow,          \* Date.now() in the blockchain-verify process (milliseconds)
  rateLimitMap,   \* rateLimitMap of blockchain-verify: one entry per client
  bvLog           \* the calls of checkRateLimit so far: client, time, answer

bvVars == <<bvNow, rateLimitMap, bvLog>>

aVars == <<aNow, audit_batches, pb, ac, aRequests, mk, le, ba, bvVars>>

vars == <<rlVars, scVars, vtVars, audit_logs, qVars, aVars>>

\* ------------------------------------------- verification_rate_limits rows
NoRow ==
  [present |-> FALSE, attempt_count |-> 0, last_attempt_at |-> 0,
   blocked_until |-> NULL]

\* SELECT blocked_until ... WHERE ip_address = p AND blocked_until > now()
SelectBlocked(row, t) ==
  IF row.present /\ row.blocked_until # NULL /\ row.blocked_until > t
  THEN row.blocked_until
  ELSE NULL

\* SELECT COALESCE(SUM(attempt_count), 0) ... AND last_attempt_at > window_start
SumRecent(row, t) ==
  IF row.present /\ row.last_attempt_at > t - Window
  THEN row.attempt_count
  ELSE 0

\* INSERT ... (blocked_until, attempt_count 1, last_attempt_at) ON CONFLICT
\* (ip_address) DO UPDATE SET blocked_until, last_attempt_at, attempt_count + 1
UpsertBlock(row, t) ==
  IF row.present
  THEN [row EXCEPT !.blocked_until = t + BlockDuration,
                   !.last_attempt_at = t,
                   !.attempt_count = @ + 1]
  ELSE [present |-> TRUE, attempt_count |-> 1, last_attempt_at |-> t,
        blocked_until |-> t + BlockDuration]

\* INSERT ... (attempt_count 1, last_attempt_at) ON CONFLICT (ip_address)
\* DO UPDATE SET attempt_count + 1, last_attempt_at
UpsertAttempt(row, t) ==
  IF row.present
  THEN [row EXCEPT !.attempt_count = @ + 1, !.last_attempt_at = t]
  ELSE [present |-> TRUE, attempt_count |-> 1, last_attempt_at |-> t,
        blocked_until |-> NULL]

\* The function counting the attempt of a blocked key too.
CheckRateLimitCountsBlocked(row, t) ==
  IF SelectBlocked(row, t) # NULL
  THEN [row |-> UpsertAttempt(row, t), allowed |-> FALSE]
  ELSE IF SumRecent(row, t) >= RateThreshold
       THEN [row |-> UpsertBlock(row, t), allowed |-> FALSE]
       ELSE [row |-> UpsertAttempt(row, t), allowed |-> TRUE]

\* The function with the threshold test written > instead of >=.
CheckRateLimitOffByOne(row, t) ==
  IF SelectBlocked(row, t) # NULL
  THEN [row |-> row, allowed |-> FALSE]
  ELSE IF SumRecent(row, t) > RateThreshold
       THEN [row |-> UpsertBlock(row, t), allowed |-> FALSE]
       ELSE [row |-> UpsertAttempt(row, t), allowed |-> TRUE]

\* The whole function run alone (no other call between its statements):
\* the row it leaves and the boolean it returns.
CheckRateLimit(row, t) ==
  IF SelectBlocked(row, t) # NULL
  THEN [row |-> row, allowed |-> FALSE]
  ELSE IF SumRecent(row, t) >= RateThreshold
       THEN [row |-> UpsertBlock(row, t), allowed |-> FALSE]
       ELSE [row |-> UpsertAttempt(row, t), allowed |-> TRUE]

\* ---------------------------------------------------- blockchain-audit: state
BatchWorkers == {1, 2}

\* A SHA-256 digest, as the text it was taken of between two marks: equal
\* digests have equal texts.  Texts are sequences of numbers.
Sha256(text) == <<-1>> \o text \o <<-2>>
\* '0'.repeat(64)
Genesis == <<0>>
\* NULL in a text column (no text is empty in the model).
NullText == <<>>

\* What stands for the TypeError "crypto.subtle.digestSync is not a function".
TypeError == <<-10>>

PbIdle ==
  [pc |-> "idle", pendingLogs |-> <<>>, previousHash |-> Genesis,
   auditChain |-> [threw |-> FALSE, previousHash |-> Genesis,
                   currentHash |-> Genesis, merkleRoot |-> Genesis,
                   timestamp |-> 0],
   http |-> 0]

MkIdle ==
  [pc |-> "idle", data |-> <<>>, root |-> <<>>, index |-> 0, proof |-> <<>>]

\* No log_event request was answered yet.
LeIdle == [http |-> 0, success |-> FALSE, stored |-> FALSE, sinkCalls |-> 0]

BaIdle ==
  [pc |-> "idle", configured |-> FALSE, timestamp |-> 0, userId |-> "",
   encryptedData |-> NullText,
   blockchainTx |-> NullText, sinkCalls |-> 0, stored |-> FALSE, http |-> 0,
   success |-> FALSE]

\* rateLimitMap.get(clientIP) of a client with no entry.
NoClient == [present |-> FALSE, count |-> 0, resetTime |-> 0]

\* Nothing has run yet.
AIdleState ==
  /\ bvNow = 0
  /\ rateLimitMap = [k \in Keys |-> NoClient]
  /\ bvLog = <<>>
  /\ aNow = 0
  /\ audit_batches = <<>>
  /\ pb = [w \in BatchWorkers |-> PbIdle]
  /\ ac = <<>>
  /\ aRequests = 0
  /\ mk = MkIdle
  /\ le = LeIdle
  /\ ba = BaIdle

AIdleInit ==
  /\ AIdleState

\* ------------------------- verify-with-limit, reset-verification-count: state
Workers == {1, 2}
\* The one student, and the institution that owns it.
StudentId == "s1"
Students == {StudentId}
OwnerInstitution == "i1"
\* verification ids of two transcripts of the student, and one of no transcript
QFoundIds == {"VT-1-a", "VT-3-c"}
QIds == QFoundIds \cup {"VT-2-b"}

\* What the body of a response carries for the caller to tell rejections
\* apart: the status field and the limitExceeded field ("" and FALSE when the
\* body has none), and the text of its error or message field.
Body(status, limitExceeded, message) ==
  [status |-> status, limitExceeded |-> limitExceeded, message |-> message]

NoBody == Body("", FALSE, "")

VwIdle ==
  [pc |-> "idle", verificationId |-> "VT-2-b", verificationCount |-> 0,
   verificationLimit |-> 0, transcript |-> FALSE,
   updateError |-> FALSE, http |-> 0, verified |-> FALSE,
   suppressed |-> FALSE, ipAddress |-> "", body |-> NoBody]

RsIdle == [pc |-> "idle", caller |-> "anon", http |-> 0]

QStats0 == [consumeCalls |-> 0, verified |-> 0, resets |-> 0,
            updateErrors |-> 0]

\* students as the migration leaves a new student: count 0, limit set later
Student0(limit) ==
  [verification_count |-> 0, verification_limit |-> limit,
   institution_id |-> OwnerInstitution]

QIdleInit ==
  /\ qNow = 0
  /\ students = [s \in Students |-> Student0(DefaultLimit)]
  /\ verification_attempts = <<>>
  /\ vw = [w \in Workers |-> VwIdle]
  /\ rs = RsIdle
  /\ qRequests = 0
  /\ qStats = QStats0
  /\ AIdleInit

\* ----------------------------------- verify-transcript: requests and state
Handlers == {1}
\* Request bodies: a verification id with a transcript, one without, one that
\* fails the format test; ip_address given or absent ("").
FoundId == "VT-1-a"
AbsentId == "VT-2-b"
BadId == "bad"
VerificationIds == {FoundId, AbsentId, BadId}
IpInputs == {"203.0.113.7", ""}

\* /^VT-\d+-[a-z0-9]+$/i
ValidFormat(vid) == vid \in {FoundId, AbsentId}
\* transcripts rows by verification_id
HasTranscript(vid) == vid = FoundId
\* transcripts.id of the row with that verification_id
TranscriptId(vid) == IF vid = FoundId THEN "t1" ELSE "none"
\* ip_address || x-forwarded-for || x-real-ip || 'unknown' (no such headers)
clientIP(ip) == IF ip # "" THEN ip ELSE "unknown"
\* p_ip_address is of type inet: the rpc fails for a text that is no address
IsInet(k) == k # "unknown"

\* rateLimitCheck is the data of the rpc once it was called: "true", "false",
\* or "null" when the rpc returned an error.
VtIdle ==
  [pc |-> "idle", verification_id |-> BadId, clientIP |-> "unknown",
   rateLimitCheck |-> "unset", verified |-> FALSE, status |-> "none",
   http |-> 0, logged |-> 0, body |-> NoBody]

VTIdleInit ==
  /\ vt = [h \in Handlers |-> VtIdle]
  /\ vtRequests = 0
  /\ audit_logs = <<>>
  /\ QIdleInit

\* ------------------------------------------------ concurrent limiter calls
RlIdle == [pc |-> "idle", ip |-> "unknown", t |-> 0, current_attempts |-> 0]

RLInit ==
  /\ rlNow = 0
  /\ rate_limits = [k \in Keys |-> NoRow]
  /\ rl = [c \in Callers |-> RlIdle]
  /\ rlCalls = 0
  /\ rlAllowed = [k \in Keys |-> 0]
  /\ scStart = 0
  /\ scLog = <<>>
  /\ scTimes = <<>>
  /\ VTIdleInit

\* A call begins: now() is fixed for the whole transaction.
RLBegin(c, k) ==
  /\ rl[c].pc = "idle"
  /\ rlCalls < MaxCalls
  /\ rl' = [rl EXCEPT ![c] = [pc |-> "select_blocked", ip |-> k, t |-> rlNow,
                              current_attempts |-> 0]]
  /\ rlCalls' = rlCalls + 1
  /\ UNCHANGED <<rlNow, rate_limits, rlAllowed, scVars, vtVars, audit_logs, qVars, aVars>>

\* First statement and the IF after it: RETURN FALSE when the key is blocked.
RLSelectBlocked(c) ==
  /\ rl[c].pc = "select_blocked"
  /\ IF SelectBlocked(rate_limits[rl[c].ip], rl[c].t) # NULL
     THEN rl' = [rl EXCEPT ![c] = RlIdle]
     ELSE rl' = [rl EXCEPT ![c].pc = "sum_recent"]
  /\ UNCHANGED <<rlNow, rate_limits, rlCalls, rlAllowed, scVars, vtVars, audit_logs, qVars, aVars>>

\* Second statement: current_attempts.
RLSumRecent(c) ==
  /\ rl[c].pc = "sum_recent"
  /\ rl' = [rl EXCEPT ![c].current_attempts =
                         SumRecent(rate_limits[rl[c].ip], rl[c].t),
                      ![c].pc = "upsert"]
  /\ UNCHANGED <<rlNow, rate_limits, rlCalls, rlAllowed, scVars, vtVars, audit_logs, qVars, aVars>>

\* The upsert of the branch taken, and the return.
RLUpsert(c) ==
  /\ rl[c].pc = "upsert"
  /\ IF rl[c].current_attempts >= RateThreshold
     THEN /\ rate_limits' = [rate_limits EXCEPT ![rl[c].ip] =
                                UpsertBlock(@, rl[c].t)]
          /\ UNCHANGED rlAllowed
     ELSE /\ rate_limits' = [rate_limits EXCEPT ![rl[c].ip] =
                                UpsertAttempt(@, rl[c].t)]
          /\ rlAllowed' = [rlAllowed EXCEPT ![rl[c].ip] = @ + 1]
  /\ rl' = [rl EXCEPT ![c] = RlIdle]
  /\ UNCHANGED <<rlNow, rlCalls, scVars, vtVars, audit_logs, qVars, aVars>>

RLTick ==
  /\ rlNow < MaxNow
  /\ rlNow' = rlNow + 1
  /\ UNCHANGED <<rate_limits, rl, rlCalls, rlAllowed, scVars, vtVars, audit_logs, qVars, aVars>>

RLNext ==
  \/ \E c \in Callers, k \in RLKeys : RLBegin(c, k)
  \/ \E c \in Callers : RLSelectBlocked(c)
  \/ \E c \in Callers : RLSumRecent(c)
  \/ \E c \in Callers : RLUpsert(c)
  \/ RLTick

SpecRL == RLInit /\ [][RLNext]_vars

\* C1: of the calls on one key within one window (every call of SpecRL is:
\* its clock stays below Window) at most RateThreshold return TRUE, under
\* every interleaving of the calls' statements.
C1_AtMostThresholdAllowed ==
  \A k \in Keys : rlAllowed[k] <= RateThreshold

\* ------------------------------------------- one client, one call at a time
\* The client 203.0.113.7 of a fresh table calls the function 21 times within
\* an hour, each call run to its end before the next, and once more
\* Window + 1 minutes after the 21st.
ScKey == "203.0.113.7"
ScCallsInHour == RateThreshold + 1
LaterGap == Window + 1

ScInit ==
  /\ scStart \in 0..MaxStart
  /\ rlNow = scStart
  /\ rate_limits = [k \in Keys |-> NoRow]
  /\ rl = [c \in Callers |-> RlIdle]
  /\ rlCalls = 0
  /\ rlAllowed = [k \in Keys |-> 0]
  /\ scLog = <<>>
  /\ scTimes = <<>>
  /\ VTIdleInit

ScCallAt(t) ==
  LET r == CheckRateLimit(rate_limits[ScKey], t)
  IN  /\ rlNow' = t
      /\ rate_limits' = [rate_limits EXCEPT ![ScKey] = r.row]
      /\ rlCalls' = rlCalls + 1
      /\ scLog' = Append(scLog, r.allowed)
      /\ rlAllowed' = [rlAllowed EXCEPT ![ScKey] =
                          IF r.allowed THEN @ + 1 ELSE @]
      /\ UNCHANGED <<rl, scStart, scTimes, vtVars, audit_logs, qVars, aVars>>

\* Calls 1 to 21, all less than Window after the first.
ScAttempt(gap) ==
  /\ rlCalls < ScCallsInHour
  /\ rlNow + gap - scStart < Window
  /\ ScCallAt(rlNow + gap)

\* Call 22, LaterGap minutes after the 21st.
ScLater ==
  /\ rlCalls = ScCallsInHour
  /\ ScCallAt(rlNow + LaterGap)

ScNext ==
  \/ \E gap \in 0..MaxGap : ScAttempt(gap)
  \/ ScLater

SpecScenario == ScInit /\ [][ScNext]_vars

ScRow == rate_limits[ScKey]

\* C10: the first 20 calls within the hour return TRUE (Allowed); the 21st
\* returns FALSE (Blocked) and leaves blocked_until = now + 1 hour; the call
\* 61 minutes after the 21st returns TRUE.
C10_Scenario ==
  /\ \A i \in 1..Len(scLog) : i <= RateThreshold => scLog[i] = TRUE
  /\ Len(scLog) >= ScCallsInHour => scLog[ScCallsInHour] = FALSE
  /\ Len(scLog) = ScCallsInHour => ScRow.blocked_until = rlNow + BlockDuration
  /\ Len(scLog) > ScCallsInHour => scLog[ScCallsInHour + 1] = TRUE

\* The scenario has run to its end: 22 calls, the last one after the block.
C10_Witness ==
  /\ Len(scLog) = ScCallsInHour + 1
  /\ ScRow.blocked_until # NULL /\ ScRow.blocked_until < rlNow

\* The client 203.0.113.7 of a fresh table calls the function in bursts, each
\* call run to its end before the next: the calls of a burst in one minute,
\* and a pause of about the window between two bursts.
Pauses == {Window - 1, Window, Window + 1}

\* Pauses the client has made so far.
ScPausesMade == Cardinality({i \in 2..Len(scTimes) : scTimes[i] # scTimes[i - 1]})

BurstInit ==
  /\ scStart = 0
  /\ rlNow = 0
  /\ rate_limits = [k \in Keys |-> NoRow]
  /\ rl = [c \in Callers |-> RlIdle]
  /\ rlCalls = 0
  /\ rlAllowed = [k \in Keys |-> 0]
  /\ scLog = <<>>
  /\ scTimes = <<>>
  /\ VTIdleInit

\* One call at minute t; the client notes the minute and the answer.
BurstCallAt(t) ==
  LET r == CheckRateLimit(rate_limits[ScKey], t)
  IN  /\ rlNow' = t
      /\ rate_limits' = [rate_limits EXCEPT ![ScKey] = r.row]
      /\ rlCalls' = rlCalls + 1
      /\ scLog' = Append(scLog, r.allowed)
      /\ scTimes' = Append(scTimes, t)
      /\ rlAllowed' = [rlAllowed EXCEPT ![ScKey] =
                          IF r.allowed THEN @ + 1 ELSE @]
      /\ UNCHANGED <<rl, scStart, vtVars, audit_logs, qVars, aVars>>

BurstCall ==
  /\ rlCalls < MaxBurstCalls
  /\ BurstCallAt(rlNow)

BurstPause(pause) ==
  /\ rlCalls < MaxBurstCalls
  /\ rlCalls > 0
  /\ ScPausesMade < MaxPauses
  /\ BurstCallAt(rlNow + pause)

BurstNext ==
  \/ BurstCall
  \/ \E pause \in Pauses : BurstPause(pause)

SpecBurst == BurstInit /\ [][BurstNext]_vars

\* The record is past its window at call i: the attempt before it is more than
\* an hour old.
PastWindow(i) == i > 1 /\ scTimes[i] - scTimes[i - 1] > Window

\* C11: when the record of the key is past its window at a call, that call and
\* the calls after it, up to 20 in all and within the hour that starts at
\* that call, are all allowed: attempts from before the window do not count.
C11_CountResetAfterWindow ==
  \A i \in 1..Len(scLog) :
    PastWindow(i) =>
      \A k \in i..Len(scLog) :
        (k < i + RateThreshold /\ scTimes[k] < scTimes[i] + Window)
          => scLog[k] = TRUE

\* Attempts of the key with a timestamp in [scTimes[i] - 1h, scTimes[i]], call
\* i among them.
AttemptsInTrailingHour(i) ==
  Cardinality({j \in 1..i : scTimes[j] >= scTimes[i] - Window})

\* C12: a key is blocked only if it made at least 20 attempts within some
\* one-hour interval: when any of its calls was refused, some call has at least
\* 20 attempts in its trailing hour.
C12_BlockedOnlyAfterThresholdInWindow ==
  (\E i \in 1..Len(scLog) : scLog[i] = FALSE)
    => \E i \in 1..Len(scLog) : AttemptsInTrailingHour(i) >= RateThreshold

\* ------------------------------------------------------ verify-transcript
\* One request is handled at a time here; calls of the limiter that overlap
\* are those of SpecRL.
\* log_audit_event: INSERT INTO audit_logs (user_id, action, resource_type,
\* resource_id, details); the other columns take their defaults.
AuditRow(action, resource_type, resource_id, t) ==
  [action |-> action, resource_type |-> resource_type,
   resource_id |-> resource_id, severity |-> "low", created_at |-> t,
   blockchain_tx |-> NullText]

VtRespond(h, status, http, message) ==
  [vt EXCEPT ![h].pc = "done", ![h].status = status, ![h].http = http,
             ![h].body = Body(status, FALSE, message)]

\* The request body is parsed and validated.
VTReceive(h, vid, ip) ==
  /\ vt[h].pc \in {"idle", "done"}
  /\ vtRequests < MaxVTRequests
  /\ vtRequests' = vtRequests + 1
  /\ LET fresh == [VtIdle EXCEPT !.verification_id = vid,
                                  !.clientIP = clientIP(ip)]
     IN  IF ValidFormat(vid)
         THEN vt' = [vt EXCEPT ![h] = [fresh EXCEPT !.pc = "rate_limit"]]
         ELSE vt' = [vt EXCEPT ![h] =
                 [fresh EXCEPT !.pc = "done", !.status = "invalid",
                    !.http = 400,
                    !.body = Body("invalid", FALSE,
                       "Verification ID must be in the format VT-XXXXXXXXX-XXXXXXX")]]
  /\ UNCHANGED <<rlVars, scVars, audit_logs, qVars, aVars>>

\* The body of the answer to a request the limiter refused.
TooManyAttempts == "Too many verification attempts. Please try again later."

\* The handler going on to the lookup when the rpc returns an error.
VTRateLimitFailOpen(h, rpcOk) ==
  /\ vt[h].pc = "rate_limit"
  /\ LET k == vt[h].clientIP
         r == CheckRateLimit(rate_limits[k], rlNow)
     IN  IF ~IsInet(k) \/ ~rpcOk
         THEN /\ vt' = [vt EXCEPT ![h].pc = "lookup",
                                  ![h].rateLimitCheck = "null"]
              /\ UNCHANGED <<rate_limits, rlAllowed>>
         ELSE /\ rate_limits' = [rate_limits EXCEPT ![k] = r.row]
              /\ rlAllowed' = [rlAllowed EXCEPT ![k] =
                                  IF r.allowed THEN @ + 1 ELSE @]
              /\ IF r.allowed
                 THEN vt' = [vt EXCEPT ![h].pc = "lookup",
                                       ![h].rateLimitCheck = "true"]
                 ELSE vt' = [VtRespond(h, "rate_limited", 429,
                                       TooManyAttempts)
                               EXCEPT ![h].rateLimitCheck = "false"]
  /\ UNCHANGED <<rlNow, rl, rlCalls, scVars, vtRequests, audit_logs, qVars, aVars>>

\* rpc('check_verification_rate_limit'): the rpc returns an error, and no
\* data, when the key is no inet value and when the call fails (rpcOk is
\* FALSE); the error is printed, and !rateLimitCheck answers 429 for the
\* data false and for no data alike.
VTRateLimit(h, rpcOk) ==
  /\ vt[h].pc = "rate_limit"
  /\ LET k == vt[h].clientIP
         r == CheckRateLimit(rate_limits[k], rlNow)
     IN  IF ~IsInet(k) \/ ~rpcOk
         THEN /\ vt' = [VtRespond(h, "rate_limited", 429, TooManyAttempts)
                          EXCEPT ![h].rateLimitCheck = "null"]
              /\ UNCHANGED <<rate_limits, rlAllowed>>
         ELSE /\ rate_limits' = [rate_limits EXCEPT ![k] = r.row]
              /\ rlAllowed' = [rlAllowed EXCEPT ![k] =
                                  IF r.allowed THEN @ + 1 ELSE @]
              /\ IF r.allowed
                 THEN vt' = [vt EXCEPT ![h].pc = "lookup",
                                       ![h].rateLimitCheck = "true"]
                 ELSE vt' = [VtRespond(h, "rate_limited", 429,
                                       TooManyAttempts)
                               EXCEPT ![h].rateLimitCheck = "false"]
  /\ UNCHANGED <<rlNow, rl, rlCalls, scVars, vtRequests, audit_logs, qVars, aVars>>

\* The transcripts query (and, for a transcript found, the students query,
\* which changes nothing and whose error is ignored).  verified is the
\* transcript's verified column as the query reads it.
VTLookup(h, dbError, verified) ==
  /\ vt[h].pc = "lookup"
  /\ IF dbError
     THEN vt' = VtRespond(h, "invalid", 500, "Database error")
     ELSE IF ~HasTranscript(vt[h].verification_id)
          THEN vt' = VtRespond(h, "invalid", 200, "Verification ID not found")
          ELSE vt' = [vt EXCEPT ![h].pc = "log", ![h].verified = verified]
  /\ UNCHANGED <<rlVars, scVars, vtRequests, audit_logs, qVars, aVars>>

\* rpc('log_audit_event') with the transcript's id and the answer: status
\* verified or pending after the transcript; a failed rpc is not looked at.
VTLogAudit(h, stored) ==
  /\ vt[h].pc = "log"
  /\ LET status == IF vt[h].verified THEN "verified" ELSE "pending"
     IN  IF stored
         THEN /\ audit_logs' = Append(audit_logs,
                    AuditRow("transcript_verification", "transcript",
                             TranscriptId(vt[h].verification_id), rlNow))
              /\ vt' = [VtRespond(h, status, 200, "") EXCEPT ![h].logged = 1]
         ELSE /\ vt' = VtRespond(h, status, 200, "")
              /\ UNCHANGED audit_logs
  /\ UNCHANGED <<rlVars, scVars, vtRequests, qVars, aVars>>

VTInit ==
  /\ rlNow = 0
  /\ rate_limits = [k \in Keys |-> NoRow]
  /\ rl = [c \in Callers |-> RlIdle]
  /\ rlCalls = 0
  /\ rlAllowed = [k \in Keys |-> 0]
  /\ scStart = 0
  /\ scLog = <<>>
  /\ scTimes = <<>>
  /\ VTIdleInit

VTTick ==
  /\ rlNow < MaxNow
  /\ rlNow' = rlNow + 1
  /\ UNCHANGED <<rate_limits, rl, rlCalls, rlAllowed, scVars, vtVars,
                 audit_logs, qVars, aVars>>

VTNext ==
  \/ \E h \in Handlers, vid \in VerificationIds, ip \in IpInputs :
        VTReceive(h, vid, ip)
  \/ \E h \in Handlers, rpcOk \in BOOLEAN : VTRateLimit(h, rpcOk)
  \/ \E h \in Handlers, dbError \in BOOLEAN, verified \in BOOLEAN :
        VTLookup(h, dbError, verified)
  \/ \E h \in Handlers, stored \in BOOLEAN : VTLogAudit(h, stored)
  \/ VTTick

SpecVT == VTInit /\ [][VTNext]_vars

\* C8: every well-formed verification request that has been answered
\* (verified, failed lookup, rate-limit rejection) produced exactly one
\* AuditEvent, whatever its outcome.
C8_OneAuditEventPerRequest ==
  \A h \in Handlers :
    (vt[h].pc = "done" /\ ValidFormat(vt[h].verification_id))
      => vt[h].logged = 1


\* --------------------------------------------------------- verify-with-limit
NoStudent == "none"

\* x || d of JavaScript, for a number x
OrDefault(x, d) == IF x = 0 THEN d ELSE x

\* transcripts joined with students!inner: the student of a verification id
StudentOf(vid) == IF vid \in QFoundIds THEN StudentId ELSE NoStudent

\* .eq('verification_id', id).gte('attempted_at', now - 5 s): matching rows
RecentRows(vid, t) ==
  {i \in DOMAIN verification_attempts :
     /\ verification_attempts[i].verification_id = vid
     /\ verification_attempts[i].attempted_at >= t - SuppressWindow}

\* .limit(5) with no ORDER BY: any five of the matching rows
recentAttempts(vid, t) ==
  IF Cardinality(RecentRows(vid, t)) <= RecentLimit
  THEN {RecentRows(vid, t)}
  ELSE {S \in SUBSET RecentRows(vid, t) : Cardinality(S) = RecentLimit}

\* recentAttempts.find(attempt => attempt.success)
recentSuccess(S) == \E i \in S : verification_attempts[i].success

\* ipAddress of the request body: an address, or the text the pages of the
\* repository send.
QIpInputs == {"203.0.113.7", "unknown"}

\* insert into verification_attempts; student_id is NOT NULL and ip_address
\* is of type inet ("" is no ip_address given), and the error of a refused
\* insert is not looked at
InsertAttempt(table, student_id, vid, t, success, ip_address) ==
  IF student_id = NoStudent \/ (ip_address # "" /\ ~IsInet(ip_address))
  THEN table
  ELSE Append(table, [student_id |-> student_id, verification_id |-> vid,
                      attempted_at |-> t, success |-> success])

\* The answer; the body of the request is kept no longer.
VwRespond(w, http, verified, limitExceeded, message) ==
  [vw EXCEPT ![w].pc = "done", ![w].http = http, ![w].verified = verified,
             ![w].ipAddress = "",
             ![w].body = Body("", limitExceeded, message)]

\* The request arrives and the recent attempts are read: a successful one
\* among them answers 429 "already completed".  attemptsError is not read:
\* when the select fails (selectOk is FALSE) recentAttempts is null and the
\* request goes on.
VWReceive(w, vid, ipAddress, selectOk) ==
  /\ vw[w].pc \in {"idle", "done"}
  /\ qRequests < MaxQRequests
  /\ qRequests' = qRequests + 1
  /\ \E S \in recentAttempts(vid, qNow) :
       LET fresh == [VwIdle EXCEPT !.verificationId = vid]
       IN  IF selectOk /\ recentSuccess(S)
           THEN vw' = [vw EXCEPT ![w] =
                   [fresh EXCEPT !.pc = "done", !.http = 429,
                      !.suppressed = TRUE,
                      !.body = Body("", FALSE,
                         "Verification was already completed recently. Please wait a moment before trying again.")]]
           ELSE vw' = [vw EXCEPT ![w] = [fresh EXCEPT !.pc = "lookup",
                                           !.ipAddress = ipAddress]]
  /\ UNCHANGED <<aVars, rlVars, scVars, vtVars, audit_logs, qNow, students,
                 verification_attempts, rs, qStats>>

\* The lookup with the limit test written > instead of >=.
VWLookupStrict(w, ok) ==
  /\ vw[w].pc = "lookup"
  /\ LET sid == StudentOf(vw[w].verificationId)
         verificationCount == OrDefault(students[sid].verification_count, 0)
         verificationLimit ==
           OrDefault(students[sid].verification_limit, DefaultLimit)
     IN  IF ~ok \/ sid = NoStudent
         THEN /\ vw' = [vw EXCEPT ![w].pc = "log_not_found"]
              /\ UNCHANGED qStats
         ELSE /\ vw' = [vw EXCEPT
                   ![w].transcript = TRUE,
                   ![w].verificationCount = verificationCount,
                   ![w].verificationLimit = verificationLimit,
                   ![w].pc = IF verificationCount > verificationLimit
                             THEN "log_exceeded" ELSE "update"]
              /\ qStats' = [qStats EXCEPT !.consumeCalls = @ + 1]
  /\ UNCHANGED <<aVars, rlVars, scVars, vtVars, audit_logs, qNow, students,
                 verification_attempts, rs, qRequests>>

\* The transcript and its student are read: a select that fails (ok is FALSE)
\* and a select that finds no row both leave transcript null and take the
\* path of an invalid id; otherwise verificationCount and verificationLimit
\* are taken and compared.
VWLookup(w, ok) ==
  /\ vw[w].pc = "lookup"
  /\ LET sid == StudentOf(vw[w].verificationId)
         verificationCount == OrDefault(students[sid].verification_count, 0)
         verificationLimit ==
           OrDefault(students[sid].verification_limit, DefaultLimit)
     IN  IF ~ok \/ sid = NoStudent
         THEN /\ vw' = [vw EXCEPT ![w].pc = "log_not_found"]
              /\ UNCHANGED qStats
         ELSE /\ vw' = [vw EXCEPT
                   ![w].transcript = TRUE,
                   ![w].verificationCount = verificationCount,
                   ![w].verificationLimit = verificationLimit,
                   ![w].pc = IF verificationCount >= verificationLimit
                             THEN "log_exceeded" ELSE "update"]
              /\ qStats' = [qStats EXCEPT !.consumeCalls = @ + 1]
  /\ UNCHANGED <<aVars, rlVars, scVars, vtVars, audit_logs, qNow, students,
                 verification_attempts, rs, qRequests>>

\* Invalid verification ID: the failed attempt is inserted without a
\* student_id, which the table refuses, and 404 is answered.
VWLogNotFound(w) ==
  /\ vw[w].pc = "log_not_found"
  /\ verification_attempts' =
       InsertAttempt(verification_attempts, NoStudent, vw[w].verificationId,
                     qNow, FALSE, vw[w].ipAddress)
  /\ vw' = VwRespond(w, 404, FALSE, FALSE, "Invalid verification ID")
  /\ UNCHANGED <<aVars, rlVars, scVars, vtVars, audit_logs, qNow, students, rs,
                 qRequests, qStats>>

\* The error text of the limit-exceeded body.
LimitExceededError(verificationLimit) ==
  "Verification limit exceeded. This student has reached the maximum of "
    \o ToString(verificationLimit)
    \o " verification attempts. Please contact the institution to reset the limit."

\* The limit-exceeded answer with the marker and the text of the limiter's
\* answer.
VWLogExceededMerged(w, stored) ==
  /\ vw[w].pc = "log_exceeded"
  /\ verification_attempts' =
       IF stored
       THEN InsertAttempt(verification_attempts,
                          StudentOf(vw[w].verificationId),
                          vw[w].verificationId, qNow, FALSE, vw[w].ipAddress)
       ELSE verification_attempts
  /\ vw' = [VwRespond(w, 429, FALSE, FALSE, TooManyAttempts)
              EXCEPT ![w].body.status = "rate_limited"]
  /\ UNCHANGED <<aVars, rlVars, scVars, vtVars, audit_logs, qNow, students, rs,
                 qRequests, qStats>>

\* Limit exceeded: the failed attempt is inserted, and 429 is answered with
\* limitExceeded, verificationCount and verificationLimit.  The result of
\* the insert is not read: the answer is the same when the insert fails
\* (stored is FALSE).
VWLogExceeded(w, stored) ==
  /\ vw[w].pc = "log_exceeded"
  /\ verification_attempts' =
       IF stored
       THEN InsertAttempt(verification_attempts,
                          StudentOf(vw[w].verificationId),
                          vw[w].verificationId, qNow, FALSE, vw[w].ipAddress)
       ELSE verification_attempts
  /\ vw' = VwRespond(w, 429, FALSE, TRUE,
                     LimitExceededError(vw[w].verificationLimit))
  /\ UNCHANGED <<aVars, rlVars, scVars, vtVars, audit_logs, qNow, students, rs,
                 qRequests, qStats>>

\* update students set verification_count = newCount; an updateError is
\* printed and the request goes on.
VWUpdate(w, ok) ==
  /\ vw[w].pc = "update"
  /\ LET newCount == vw[w].verificationCount + 1
         sid == StudentOf(vw[w].verificationId)
     IN  IF ok
         THEN /\ students' = [students EXCEPT
                               ![sid].verification_count = newCount]
              /\ vw' = [vw EXCEPT ![w].pc = "log_success"]
              /\ UNCHANGED qStats
         ELSE /\ vw' = [vw EXCEPT ![w].pc = "log_success",
                                  ![w].updateError = TRUE]
              /\ qStats' = [qStats EXCEPT !.updateErrors = @ + 1]
              /\ UNCHANGED students
  /\ UNCHANGED <<aVars, rlVars, scVars, vtVars, audit_logs, qNow,
                 verification_attempts, rs, qRequests>>

\* The successful attempt is inserted, and 200 verified is answered, also
\* when the insert fails (stored is FALSE): its result is not read.
VWLogSuccess(w, stored) ==
  /\ vw[w].pc = "log_success"
  /\ verification_attempts' =
       IF stored
       THEN InsertAttempt(verification_attempts,
                          StudentOf(vw[w].verificationId),
                          vw[w].verificationId, qNow, TRUE, vw[w].ipAddress)
       ELSE verification_attempts
  /\ vw' = VwRespond(w, 200, TRUE, FALSE, "")
  /\ qStats' = [qStats EXCEPT !.verified = @ + 1]
  /\ UNCHANGED <<aVars, rlVars, scVars, vtVars, audit_logs, qNow, students, rs,
                 qRequests>>

\* -------------------------------------------------- reset-verification-count
\* Who asks: the user of the owning institution, the user of another
\* institution, a signed-in user with no institution, nobody signed in.
ResetCallers == {"owner", "other", "no_institution", "anon"}

\* institutions.select('id').eq('user_id', user.id): the caller's institution.
NoInstitution == "none"
InstitutionOf(caller) ==
  CASE caller = "owner" -> OwnerInstitution
    [] caller = "other" -> "i2"
    [] OTHER -> NoInstitution

\* The handler without the institution_id condition of its student query.
RSReceiveAnyInstitution(caller, userOk, institutionOk, studentOk) ==
  /\ rs.pc \in {"idle", "done"}
  /\ qRequests < MaxQRequests
  /\ qRequests' = qRequests + 1
  /\ rs' = IF caller = "anon" \/ ~userOk
           THEN [pc |-> "done", caller |-> caller, http |-> 401]
           ELSE IF InstitutionOf(caller) = NoInstitution \/ ~institutionOk
                THEN [pc |-> "done", caller |-> caller, http |-> 404]
                ELSE IF studentOk
                     THEN [pc |-> "update", caller |-> caller, http |-> 0]
                     ELSE [pc |-> "done", caller |-> caller, http |-> 404]
  /\ UNCHANGED <<aVars, rlVars, scVars, vtVars, audit_logs, qNow, students,
                 verification_attempts, vw, qStats>>

\* auth.getUser, the institutions query and the students query (by id and
\* institution_id): 401 without a user, 404 without an institution, 404
\* without a student of that institution, or on to the update.  A call that
\* returns an error (userOk, institutionOk, studentOk FALSE) is answered like
\* one that finds nothing.
RSReceive(caller, userOk, institutionOk, studentOk) ==
  /\ rs.pc \in {"idle", "done"}
  /\ qRequests < MaxQRequests
  /\ qRequests' = qRequests + 1
  /\ rs' = IF caller = "anon" \/ ~userOk
           THEN [pc |-> "done", caller |-> caller, http |-> 401]
           ELSE IF InstitutionOf(caller) = NoInstitution \/ ~institutionOk
                THEN [pc |-> "done", caller |-> caller, http |-> 404]
                ELSE IF /\ studentOk
                        /\ students[StudentId].institution_id
                             = InstitutionOf(caller)
                     THEN [pc |-> "update", caller |-> caller, http |-> 0]
                     ELSE [pc |-> "done", caller |-> caller, http |-> 404]
  /\ UNCHANGED <<aVars, rlVars, scVars, vtVars, audit_logs, qNow, students,
                 verification_attempts, vw, qStats>>

\* update students set verification_count = 0 where id and institution_id
RSUpdate(ok) ==
  /\ rs.pc = "update"
  /\ IF ok
     THEN /\ students' = [students EXCEPT ![StudentId].verification_count = 0]
          /\ rs' = [rs EXCEPT !.pc = "log"]
          /\ qStats' = [qStats EXCEPT !.resets = @ + 1]
     ELSE /\ rs' = [rs EXCEPT !.pc = "done", !.http = 500]
          /\ UNCHANGED <<students, qStats>>
  /\ UNCHANGED <<aVars, rlVars, scVars, vtVars, audit_logs, qNow,
                 verification_attempts, vw, qRequests>>

\* The reset is logged as an attempt RESET_BY_INSTITUTION, and 200 answered,
\* also when the insert fails (stored is FALSE): its result is not read.
RSLog(stored) ==
  /\ rs.pc = "log"
  /\ verification_attempts' =
       IF stored
       THEN InsertAttempt(verification_attempts, StudentId,
                          "RESET_BY_INSTITUTION", qNow, TRUE, "")
       ELSE verification_attempts
  /\ rs' = [rs EXCEPT !.pc = "done", !.http = 200]
  /\ UNCHANGED <<aVars, rlVars, scVars, vtVars, audit_logs, qNow, students, vw,
                 qRequests, qStats>>

QTick ==
  /\ qNow < MaxQNow
  /\ qNow' = qNow + 1
  /\ UNCHANGED <<aVars, rlVars, scVars, vtVars, audit_logs, students,
                 verification_attempts, vw, rs, qRequests, qStats>>

\* A student whose verification_limit an administrator has set.
QInit ==
  /\ rlNow = 0
  /\ rate_limits = [k \in Keys |-> NoRow]
  /\ rl = [c \in Callers |-> RlIdle]
  /\ rlCalls = 0
  /\ rlAllowed = [k \in Keys |-> 0]
  /\ scStart = 0
  /\ scLog = <<>>
  /\ scTimes = <<>>
  /\ vt = [h \in Handlers |-> VtIdle]
  /\ vtRequests = 0
  /\ audit_logs = <<>>
  /\ qNow = 0
  /\ \E limit \in 0..MaxLimit :
       students = [s \in Students |-> Student0(limit)]
  /\ verification_attempts = <<>>
  /\ vw = [w \in Workers |-> VwIdle]
  /\ rs = RsIdle
  /\ qRequests = 0
  /\ qStats = QStats0
  /\ AIdleInit

QNext ==
  \/ \E w \in Workers, vid \in QIds, ipAddress \in QIpInputs,
        selectOk \in BOOLEAN : VWReceive(w, vid, ipAddress, selectOk)
  \/ \E w \in Workers, ok \in BOOLEAN : VWLookup(w, ok)
  \/ \E w \in Workers : VWLogNotFound(w)
  \/ \E w \in Workers, stored \in BOOLEAN : VWLogExceeded(w, stored)
  \/ \E w \in Workers, ok \in BOOLEAN : VWUpdate(w, ok)
  \/ \E w \in Workers, stored \in BOOLEAN : VWLogSuccess(w, stored)
  \/ \E caller \in ResetCallers, userOk \in BOOLEAN,
        institutionOk \in BOOLEAN, studentOk \in BOOLEAN :
        RSReceive(caller, userOk, institutionOk, studentOk)
  \/ \E ok \in BOOLEAN : RSUpdate(ok)
  \/ \E stored \in BOOLEAN : RSLog(stored)
  \/ QTick

SpecVerify == QInit /\ [][QNext]_vars


QQuiet == /\ \A w \in Workers : vw[w].pc \in {"idle", "done"}
          /\ rs.pc \in {"idle", "done"}

Min(a, b) == IF a <= b THEN a ELSE b

\* C2: once the N requests that reached the quota check of one student have
\* all been answered, with no reset and no failed update among them and a
\* positive limit, starting from used = 0, the number answered verified is
\* exactly min(N, limit - 0).
C2_VerifiedEqualsRemaining ==
  (/\ QQuiet
   /\ qStats.resets = 0
   /\ qStats.updateErrors = 0
   /\ students[StudentId].verification_limit >= 1)
    => qStats.verified =
         Min(qStats.consumeCalls, students[StudentId].verification_limit)

\* C3: in every reachable state 0 <= used <= limit for the student.
C3_UsedWithinLimit ==
  /\ 0 <= students[StudentId].verification_count
  /\ students[StudentId].verification_count
       <= students[StudentId].verification_limit

\* C4: after a successful attempt for a verification id no further attempt
\* row for that id is written within the 5 seconds that follow.
C4_NoRowAfterRecentSuccess ==
  \A i, j \in DOMAIN verification_attempts :
    (/\ i < j
     /\ verification_attempts[i].success
     /\ verification_attempts[i].verification_id
          = verification_attempts[j].verification_id
     /\ verification_attempts[i].verification_id \in QFoundIds)
      => verification_attempts[j].attempted_at
           > verification_attempts[i].attempted_at + SuppressWindow

\* ------------------------------------------------------------ blockchain-audit
\* The edge function of supabase/functions/blockchain-audit.  Every await on the
\* database is one step; requests of several callers interleave between steps.

\* The events callers log (StudentLogin.tsx logs what the page passes in).
EventInputs ==
  { [action |-> "login", resourceType |-> "auth", resourceId |-> "u1",
     details |-> "{}", severity |-> "low"],
    [action |-> "login", resourceType |-> "auth", resourceId |-> "u2",
     details |-> "{}", severity |-> "high"] }

\* Details that identify a subject.
SensitiveDetails == {"{national_id: 1}", "{national_id: 2}"}

\* Events that differ in nothing but their sensitive details.
SensitiveEvents ==
  { [action |-> "login", resourceType |-> "auth", resourceId |-> "u3",
     details |-> d, severity |-> "low"] : d \in SensitiveDetails }

\* The bytes of a string, one number per distinct string of the model.
Utf8(str) ==
  CASE str = "login" -> <<11>>
    [] str = "auth" -> <<12>>
    [] str = "u1" -> <<13>>
    [] str = "u2" -> <<14>>
    [] str = "low" -> <<15>>
    [] str = "high" -> <<16>>
    [] str = "{}" -> <<17>>
    [] str = "u3" -> <<18>>
    [] str = "{national_id: 1}" -> <<21>>
    [] str = "{national_id: 2}" -> <<22>>
    [] str = "user-1" -> <<23>>
    [] OTHER -> <<19>>

\* The AuditEvent process_batch rebuilds from a stored row, and its
\* JSON.stringify: the fields in their fixed order.
StringifyEvent(log) ==
  Utf8(log.action) \o Utf8(log.resource_type) \o Utf8(log.resource_id)
    \o Utf8(log.details) \o <<log.created_at>> \o Utf8(log.severity)

\* The values crypto.getRandomValues may return for the 16 bytes of a salt
\* and for the 12 bytes of an IV.
RandomSalts == {<<41>>, <<42>>}

RandomIvs == {<<51>>, <<52>>}

\* JSON.stringify(enrichedEvent) in encryptAuditData: the fields of the
\* caller's event in the order the page sends them, the timestamp log_event
\* added, and the integrity metadata with its own Date.now() and random salt.
StringifyEnriched(log, encryptedAt, salt) ==
  Utf8(log.action) \o Utf8(log.resource_type) \o Utf8(log.resource_id)
    \o Utf8(log.details) \o Utf8(log.severity) \o <<log.created_at>>
    \o <<encryptedAt>> \o salt

\* AES-GCM under a key and an IV, the IV prepended to the ciphertext: the
\* ciphertext is the plaintext between two marks, sealed with key and IV.
AesGcm(key, iv, plaintext) ==
  iv \o <<-8>> \o key \o iv \o plaintext \o <<-9>>

\* PBKDF2 of BLOCKCHAIN_SECRET_KEY with the fixed salt.
DerivedKey == <<31>>

\* encryptAuditData: the whole event, details included, is encrypted under a
\* fresh IV together with the time of encryption and a fresh salt.
encryptAuditData(log, encryptedAt, salt, iv) ==
  AesGcm(DerivedKey, iv, StringifyEnriched(log, encryptedAt, salt))

\* The row log_event inserts for event e at millisecond t: the details are
\* stored as they came, next to the encrypted event.
LogEventRow(e, t, encryptedAt, salt, iv) ==
  LET plain == [AuditRow(e.action, e.resourceType, e.resourceId, t)
                  EXCEPT !.severity = e.severity]
                 @@ [details |-> e.details]
  IN  plain @@ [encrypted_data |->
                  encryptAuditData(plain, encryptedAt, salt, iv)]

\* The row log_security_event inserts for event e at millisecond t: the
\* columns it names, encrypted_data and blockchain_tx NULL.
SecurityEventRow(e, t) ==
  [AuditRow(e.action, e.resourceType, e.resourceId, t)
     EXCEPT !.severity = e.severity]
    @@ [details |-> e.details] @@ [encrypted_data |-> NullText]

\* crypto.subtle.digestSync('SHA-256', bytes): SubtleCrypto has digest, which
\* returns a promise, and no digestSync, and the file defines none, so the
\* call is a TypeError whatever the bytes are.
DigestSync(bytes) == TypeError

hash(data) == DigestSync(data)

pairwiseHash(left, right) == hash(left \o right)

MerkleLeaves(data) == [i \in 1..Len(data) |-> hash(data[i])]

\* One pass of the for loop of getRoot: adjacent nodes are paired, an unpaired
\* last node is carried up.
RECURSIVE nextLevel(_)
nextLevel(level) ==
  IF Len(level) = 0 THEN <<>>
  ELSE IF Len(level) = 1 THEN <<level[1]>>
  ELSE <<pairwiseHash(level[1], level[2])>>
         \o nextLevel(SubSeq(level, 3, Len(level)))

RECURSIVE getRootOf(_)
getRootOf(level) ==
  IF Len(level) = 0 THEN <<>>
  ELSE IF Len(level) = 1 THEN level[1]
  ELSE getRootOf(nextLevel(level))

getRoot(data) == getRootOf(MerkleLeaves(data))

\* createAuditChain(auditEvents, previousHash) with Date.now() = t: the map
\* over the events throws at the first event; over no event the tree is
\* empty, its root is '', and the block is hashed with crypto.subtle.digest.
createAuditChain(auditEvents, previousHash, t) ==
  LET eventHashes == [i \in 1..Len(auditEvents) |->
                        DigestSync(StringifyEvent(auditEvents[i]))]
      merkleRoot == getRoot(eventHashes)
      blockData == previousHash \o merkleRoot \o <<t, Len(auditEvents)>>
  IN IF \E i \in DOMAIN eventHashes : eventHashes[i] = TypeError
     THEN [threw |-> TRUE, previousHash |-> previousHash,
           currentHash |-> TypeError, merkleRoot |-> TypeError,
           timestamp |-> t]
     ELSE [threw |-> FALSE, previousHash |-> previousHash,
           currentHash |-> Sha256(blockData), merkleRoot |-> merkleRoot,
           timestamp |-> t]

\* .limit(100) of the pending query.
BatchLimit == 100

Take(seq, n) == SubSeq(seq, 1, IF Len(seq) < n THEN Len(seq) ELSE n)

\* The orders a set of rows may come in, each row once.
RECURSIVE Perms(_)
Perms(ids) ==
  IF ids = {} THEN {<<>>}
  ELSE UNION {{<<first>> \o rest : rest \in Perms(ids \ {first})}
                : first \in ids}

\* The orders .order('created_at') may return the rows of ids in, all of them
\* created from lo to hi: by created_at ascending, rows of one created_at in
\* any order (positions are row ids).
RECURSIVE OrderRange(_, _, _)
OrderRange(ids, lo, hi) ==
  IF ids = {} THEN {<<>>}
  ELSE IF lo >= hi THEN Perms(ids)
  ELSE LET mid == (lo + hi) \div 2
           early == {i \in ids : audit_logs[i].created_at <= mid}
       IN  {a \o b : a \in OrderRange(early, lo, mid),
                     b \in OrderRange(ids \ early, mid + 1, hi)}

OrderByCreatedAt(ids) ==
  LET times == {audit_logs[i].created_at : i \in ids}
      lo == CHOOSE t \in times : \A u \in times : t <= u
      hi == CHOOSE t \in times : \A u \in times : u <= t
  IN  IF ids = {} THEN {<<>>} ELSE OrderRange(ids, lo, hi)

\* The select cutting to 100 rows in the order of the table before it orders
\* them by created_at.
SelectPendingCutFirst ==
  LET pending == {i \in DOMAIN audit_logs :
                    audit_logs[i].blockchain_tx = NullText}
      cut == {i \in pending :
                Cardinality({j \in pending : j < i}) < BatchLimit}
  IN  OrderByCreatedAt(cut)

\* from('audit_logs').is('blockchain_tx', null).order('created_at').limit(100):
\* the lists of rows the query may return.
SelectPending ==
  {Take(rows, BatchLimit) :
     rows \in OrderByCreatedAt({i \in DOMAIN audit_logs :
                                  audit_logs[i].blockchain_tx = NullText})}

\* from('audit_batches').order('created_at', desc).limit(1): a row no other row
\* is newer than.
LastBatches ==
  {i \in DOMAIN audit_batches :
     \A j \in DOMAIN audit_batches :
        audit_batches[j].created_at <= audit_batches[i].created_at}

PbRespond(w, http) == [pb EXCEPT ![w].pc = "done", ![w].http = http]

\* The AuditEvents process_batch builds of the rows it read (what it takes of
\* a row never changes once the row is stored).
auditEvents(w) ==
  [i \in 1..Len(pb[w].pendingLogs) |-> audit_logs[pb[w].pendingLogs[i]]]

\* What a request carries for authentication: no Authorization header, a
\* header getUser refuses, a header of a signed-in user.
AuthInputs == {"none", "invalid", "user"}

\* The status answered before any action is looked at: 401 without the header,
\* 400 from the catch when getUser fails, 0 when the request goes on.
AuthStatus(auth) ==
  CASE auth = "none" -> 401
    [] auth = "invalid" -> 400
    [] OTHER -> 0

\* action = 'log_event': the event is stamped with Date.now(), which was t when
\* the handler read it, then encrypted (encryptAuditData reads Date.now() a
\* second time, at t or later, and draws a salt and an IV), then inserted; an
\* insert error is logged and the answer is the same.  The step is the
\* insert.
ALogEvent(e, auth, stored, t, encryptedAt, salt, iv) ==
  /\ aRequests < MaxARequests
  /\ aRequests' = aRequests + 1
  /\ t <= encryptedAt
  /\ encryptedAt <= aNow
  /\ IF auth = "user" /\ stored
     THEN audit_logs' = Append(audit_logs,
                               LogEventRow(e, t, encryptedAt, salt, iv))
     ELSE UNCHANGED audit_logs
  /\ le' = IF auth = "user"
           THEN [http |-> 200, success |-> TRUE, stored |-> stored,
                 sinkCalls |-> 0]
           ELSE [http |-> AuthStatus(auth), success |-> FALSE,
                 stored |-> FALSE, sinkCalls |-> 0]
  /\ UNCHANGED <<mk, ba, bvVars, rlVars, scVars, vtVars, qVars,
                 aNow, audit_batches, pb, ac>>

\* rpc('log_security_event'), which the pages call next to log_event: the SQL
\* function inserts the event with created_at = now() and returns its id.
LogSecurityEvent(e) ==
  /\ aRequests < MaxARequests
  /\ aRequests' = aRequests + 1
  /\ audit_logs' = Append(audit_logs, SecurityEventRow(e, aNow))
  /\ UNCHANGED <<mk, le, ba, bvVars, rlVars, scVars, vtVars, qVars,
                 aNow, audit_batches, pb, ac>>

\* action = 'process_batch': the header, getUser, then the pending rows are
\* read; a failed select and an empty one are answered 200 at once.
PBReceive(w, auth, fetchOk) ==
  /\ pb[w].pc \in {"idle", "done"}
  /\ IF auth # "user"
     THEN pb' = [pb EXCEPT ![w] = [PbIdle EXCEPT !.pc = "done",
                                     !.http = AuthStatus(auth)]]
     ELSE IF ~fetchOk
     THEN pb' = [pb EXCEPT ![w] = [PbIdle EXCEPT !.pc = "done", !.http = 200]]
     ELSE \E pendingLogs \in SelectPending :
            pb' = IF pendingLogs = <<>>
                  THEN [pb EXCEPT ![w] = [PbIdle EXCEPT !.pc = "done",
                                            !.http = 200]]
                  ELSE [pb EXCEPT ![w] = [PbIdle EXCEPT !.pc = "last_batch",
                                            !.pendingLogs = pendingLogs]]
  /\ UNCHANGED <<mk, le, ba, bvVars, rlVars, scVars, vtVars,
                 audit_logs, qVars, aNow, audit_batches, ac, aRequests>>

\* previousHash = lastBatch?.current_hash || '0'.repeat(64): the error of the
\* select is not read, and a failed select leaves lastBatch null.
PBLastBatch(w, ok) ==
  /\ pb[w].pc = "last_batch"
  /\ IF audit_batches = <<>> \/ ~ok
     THEN pb' = [pb EXCEPT ![w].pc = "create_chain",
                   ![w].previousHash = Genesis]
     ELSE \E i \in LastBatches :
            pb' = [pb EXCEPT ![w].pc = "create_chain",
                     ![w].previousHash = audit_batches[i].current_hash]
  /\ UNCHANGED <<mk, le, ba, bvVars, rlVars, scVars, vtVars,
                 audit_logs, qVars, aNow, audit_batches, ac,
                 aRequests>>

\* createAuditChain over the rows as they were read, of which there is at
\* least one.  When it throws, the catch answers 400; had it returned,
\* recordAuditBatch would be next.
PBCreateChain(w) ==
  /\ pb[w].pc = "create_chain"
  /\ LET auditChain == createAuditChain(auditEvents(w), pb[w].previousHash,
                                        aNow)
     IN  pb' = IF auditChain.threw
               THEN [PbRespond(w, 400) EXCEPT ![w].auditChain = auditChain]
               ELSE [pb EXCEPT ![w].pc = "record",
                                ![w].auditChain = auditChain]
  /\ UNCHANGED <<mk, le, ba, bvVars, rlVars, scVars, vtVars,
                 audit_logs, qVars, aNow, audit_batches, ac,
                 aRequests>>

ATick ==
  /\ aNow < MaxANow
  /\ aNow' = aNow + 1
  /\ UNCHANGED <<mk, le, ba, bvVars, rlVars, scVars, vtVars, audit_logs, qVars, audit_batches, pb,
                 ac, aRequests>>

AInit ==
  /\ rlNow = 0
  /\ rate_limits = [k \in Keys |-> NoRow]
  /\ rl = [c \in Callers |-> RlIdle]
  /\ rlCalls = 0
  /\ rlAllowed = [k \in Keys |-> 0]
  /\ scStart = 0
  /\ scLog = <<>>
  /\ scTimes = <<>>
  /\ VTIdleInit

\* The requests that store an event, while fewer than MaxApRequests were
\* received.
ApLogEvent(e, auth, stored, t, encryptedAt, salt, iv) ==
  /\ aRequests < MaxApRequests
  /\ ALogEvent(e, auth, stored, t, encryptedAt, salt, iv)

ApLogSecurityEvent(e) ==
  /\ aRequests < MaxApRequests
  /\ LogSecurityEvent(e)

\* Events are stored by log_event and by log_security_event, MaxSealEvents
\* requests of them in all, and process_batch is called again and again, one
\* request per worker at a time.
SlLogEvent(e, auth, stored, t, encryptedAt, salt, iv) ==
  /\ aRequests < MaxSealEvents
  /\ ALogEvent(e, auth, stored, t, encryptedAt, salt, iv)

SlLogSecurityEvent(e) ==
  /\ aRequests < MaxSealEvents
  /\ LogSecurityEvent(e)

SlNext ==
  \/ \E e \in EventInputs, auth \in AuthInputs, stored \in BOOLEAN,
        t \in 0..MaxANow, encryptedAt \in 0..MaxANow, salt \in RandomSalts,
        iv \in RandomIvs :
        SlLogEvent(e, auth, stored, t, encryptedAt, salt, iv)
  \/ \E e \in EventInputs : SlLogSecurityEvent(e)
  \/ \E w \in BatchWorkers, auth \in AuthInputs, fetchOk \in BOOLEAN :
        PBReceive(w, auth, fetchOk)
  \/ \E w \in BatchWorkers, ok \in BOOLEAN : PBLastBatch(w, ok)
  \/ \E w \in BatchWorkers : PBCreateChain(w)
  \/ ATick

\* process_batch is invoked again and again by a signed-in caller, its select
\* of the pending rows succeeds, and every request that was received runs to
\* its answer.
SpecSeal ==
  /\ AInit
  /\ [][SlNext]_vars
  /\ WF_vars(\E w \in BatchWorkers : PBReceive(w, "user", TRUE))
  /\ \A w \in BatchWorkers :
       /\ WF_vars(\E ok \in BOOLEAN : PBLastBatch(w, ok))
       /\ WF_vars(PBCreateChain(w))

\* C31: with process_batch invoked again and again, every stored audit event
\* is eventually assigned to a batch: the row of the event comes to carry a
\* batch id as its blockchain_tx.
C31_StoredEventEventuallySealed ==
  \A i \in 1..MaxSealEvents :
    (i \in DOMAIN audit_logs)
      ~> (i \in DOMAIN audit_logs /\ audit_logs[i].blockchain_tx # NullText)

\* ------------------------------------------------------------------------
\* The drain of process_batch over a table with more pending rows than one
\* drain takes: a row was stored in each of the first BatchLimit milliseconds
\* by log_security_event, and then a row by a log_event request that had read
\* its timestamp in one of DrLateTimes.
DrLateTimes == {1, 2}

DrTable(late) ==
  LET e == CHOOSE x \in EventInputs : x.severity = "low"
  IN  [i \in 1..(BatchLimit + 1) |->
         IF i <= BatchLimit THEN SecurityEventRow(e, i)
         ELSE LogEventRow(e, late, late, <<41>>, <<51>>)]

DrInit ==
  /\ rlNow = 0
  /\ rate_limits = [k \in Keys |-> NoRow]
  /\ rl = [c \in Callers |-> RlIdle]
  /\ rlCalls = 0
  /\ rlAllowed = [k \in Keys |-> 0]
  /\ scStart = 0
  /\ scLog = <<>>
  /\ scTimes = <<>>
  /\ vt = [h \in Handlers |-> VtIdle]
  /\ vtRequests = 0
  /\ \E late \in DrLateTimes : audit_logs = DrTable(late)
  /\ qNow = 0
  /\ students = [s \in Students |-> Student0(DefaultLimit)]
  /\ verification_attempts = <<>>
  /\ vw = [w \in Workers |-> VwIdle]
  /\ rs = RsIdle
  /\ qRequests = 0
  /\ qStats = QStats0
  /\ bvNow = 0
  /\ rateLimitMap = [k \in Keys |-> NoClient]
  /\ bvLog = <<>>
  /\ aNow = BatchLimit
  /\ audit_batches = <<>>
  /\ pb = [w \in BatchWorkers |-> PbIdle]
  /\ ac = <<>>
  /\ aRequests = 0
  /\ mk = MkIdle
  /\ le = LeIdle
  /\ ba = BaIdle

DrNext ==
  \/ \E e \in EventInputs : ApLogSecurityEvent(e)
  \/ \E w \in BatchWorkers, auth \in AuthInputs, fetchOk \in BOOLEAN :
        PBReceive(w, auth, fetchOk)
  \/ \E w \in BatchWorkers, ok \in BOOLEAN : PBLastBatch(w, ok)
  \/ \E w \in BatchWorkers : PBCreateChain(w)

SpecDrain == DrInit /\ [][DrNext]_vars

\* ------------------------------------------------------------------------
\* createAuditChain applied on its own to lists of audit events and previous
\* hashes, at the time of the clock.
ChainEvents == {SecurityEventRow(e, 0) : e \in EventInputs}

SeqsUpTo(S, n) == UNION {[1..k -> S] : k \in 0..n}

PreviousHashes == {Genesis, Sha256(<<1>>)}

AcCall(events, previousHash) ==
  /\ Len(ac) < MaxAcCalls
  /\ ac' = Append(ac, [events |-> events, previousHash |-> previousHash,
                       auditChain |->
                         createAuditChain(events, previousHash, aNow)])
  /\ UNCHANGED <<rlVars, scVars, vtVars, audit_logs, qVars, aNow,
                 audit_batches, pb, aRequests, mk, le, ba, bvVars>>

AcNext ==
  \/ \E events \in SeqsUpTo(ChainEvents, MaxChainEvents),
        previousHash \in PreviousHashes : AcCall(events, previousHash)
  \/ ATick

SpecChain == AInit /\ [][AcNext]_vars

\* C18: createAuditChain is a function of (events, previousHash): two runs
\* that returned, on the same event list and the same previous hash, returned
\* the same current_hash.
C18_BuildBatchDeterministic ==
  \A i, j \in DOMAIN ac :
    (/\ ~ac[i].auditChain.threw /\ ~ac[j].auditChain.threw
     /\ ac[i].events = ac[j].events
     /\ ac[i].previousHash = ac[j].previousHash)
    => ac[i].auditChain.currentHash = ac[j].auditChain.currentHash

\* ------------------------------------------------------------ quota scenario
\* A student with verification_limit 5 who has been verified 5 times, the last
\* time more than 5 seconds ago.  One client, one request at a time: a
\* verify-with-limit request, then a reset by the owning institution, then a
\* second verify-with-limit request.
QsLimit == DefaultLimit
QsStart == SuppressWindow + 1
QsWorker == 1

QsInit ==
  /\ rlNow = 0
  /\ rate_limits = [k \in Keys |-> NoRow]
  /\ rl = [c \in Callers |-> RlIdle]
  /\ rlCalls = 0
  /\ rlAllowed = [k \in Keys |-> 0]
  /\ scStart = 0
  /\ scLog = <<>>
  /\ scTimes = <<>>
  /\ vt = [h \in Handlers |-> VtIdle]
  /\ vtRequests = 0
  /\ audit_logs = <<>>
  /\ qNow = QsStart
  /\ students = [s \in Students |->
                   [Student0(QsLimit) EXCEPT !.verification_count = QsLimit]]
  /\ verification_attempts =
       [i \in 1..QsLimit |->
          [student_id |-> StudentId, verification_id |-> "VT-1-a",
           attempted_at |-> 0, success |-> TRUE]]
  /\ vw = [w \in Workers |-> VwIdle]
  /\ rs = RsIdle
  /\ qRequests = 0
  /\ qStats = QStats0
  /\ AIdleInit

\* The first and the second verification request.
QsVerify(vid, ipAddress, selectOk) ==
  /\ \/ qRequests = 0
     \/ qRequests = 2 /\ rs.pc = "done"
  /\ VWReceive(QsWorker, vid, ipAddress, selectOk)

\* The reset, once the first request is answered.
QsReset(userOk, institutionOk, studentOk) ==
  /\ qRequests = 1
  /\ vw[QsWorker].pc = "done"
  /\ RSReceive("owner", userOk, institutionOk, studentOk)

QsTick ==
  /\ qNow < QsStart + MaxQsTicks
  /\ qNow' = qNow + 1
  /\ UNCHANGED <<aVars, rlVars, scVars, vtVars, audit_logs, students,
                 verification_attempts, vw, rs, qRequests, qStats>>

QsNext ==
  \/ \E vid \in QFoundIds, ipAddress \in QIpInputs, selectOk \in BOOLEAN :
        QsVerify(vid, ipAddress, selectOk)
  \/ \E ok \in BOOLEAN : VWLookup(QsWorker, ok)
  \/ VWLogNotFound(QsWorker)
  \/ \E stored \in BOOLEAN : VWLogExceeded(QsWorker, stored)
  \/ \E ok \in BOOLEAN : VWUpdate(QsWorker, ok)
  \/ \E stored \in BOOLEAN : VWLogSuccess(QsWorker, stored)
  \/ \E userOk \in BOOLEAN, institutionOk \in BOOLEAN,
        studentOk \in BOOLEAN : QsReset(userOk, institutionOk, studentOk)
  \/ \E ok \in BOOLEAN : RSUpdate(ok)
  \/ \E stored \in BOOLEAN : RSLog(stored)
  \/ QsTick

SpecQuotaScenario == QsInit /\ [][QsNext]_vars

\* verificationCount in the body of the answer: the count read for a 429,
\* verificationCount + 1 for a 200.
ReportedCount(w) ==
  IF vw[w].verified THEN vw[w].verificationCount + 1
  ELSE vw[w].verificationCount

QsAnswered(n) == qRequests = n /\ vw[QsWorker].pc = "done"

AtLimitCheck(w) ==
  /\ vw[w].pc = "lookup"
  /\ StudentOf(vw[w].verificationId) # NoStudent
  /\ students[StudentOf(vw[w].verificationId)].verification_count
       = students[StudentOf(vw[w].verificationId)].verification_limit

\* C14: a request whose quota check finds used equal to limit is refused: it
\* takes the limit-exceeded path with the stored used and limit as the values
\* it reports, and the answer on that path is 429, not verified, with the
\* students row as it was.
C14_RefusedAtLimit ==
  [][\A w \in Workers :
        /\ (AtLimitCheck(w) /\ vw'[w].pc # "lookup") =>
             /\ vw'[w].pc = "log_exceeded"
             /\ vw'[w].verificationCount
                  = students[StudentOf(vw[w].verificationId)].verification_count
             /\ vw'[w].verificationLimit
                  = students[StudentOf(vw[w].verificationId)].verification_limit
             /\ students' = students
        /\ (vw[w].pc = "log_exceeded" /\ vw'[w].pc # "log_exceeded") =>
             /\ vw'[w].http = 429 /\ ~vw'[w].verified
             /\ vw'[w].verificationCount = vw[w].verificationCount
             /\ vw'[w].verificationLimit = vw[w].verificationLimit
             /\ students' = students]_vars

\* C15: a reset asked for by anyone but the owning institution fails and
\* leaves the counter as it was: such a request is answered 401 or 404 in the
\* step that receives it, with the students row untouched, and the update of
\* a reset only ever runs for the institution that owns the student.
C15_ResetOnlyByOwner ==
  [][/\ (rs' # rs /\ rs'.caller # "owner") =>
          /\ rs'.pc = "done" /\ rs'.http \in {401, 404}
          /\ students' = students
     /\ (rs.pc = "update" /\ rs' # rs) =>
          /\ rs.caller = "owner"
          /\ students[StudentId].institution_id = InstitutionOf(rs.caller)]_vars

\* Another institution asked for a reset of a student with a count above 0,
\* and was answered 404 with the count left above 0.
C15_Witness ==
  /\ rs.pc = "done" /\ rs.caller = "other" /\ rs.http = 404
  /\ students[StudentId].verification_count > 0

\* C16: once a reset has been answered 200, audit_logs holds an event with
\* resource type system and severity medium.
C16_ResetIsAudited ==
  (rs.pc = "done" /\ rs.http = 200) =>
    \E i \in DOMAIN audit_logs :
       /\ audit_logs[i].resource_type = "system"
       /\ audit_logs[i].severity = "medium"

\* ------------------------------------------------------------------ MerkleTree
\* A MerkleTree is built over a list of event hashes; getRoot, getProof and the
\* audit contract's verifyAuditEntry are applied to it.

\* keccak256, as the bytes it was taken of between two marks.
Keccak256(bytes) == <<-4>> \o bytes \o <<-5>>

\* The strings a MerkleTree is built over: SHA-256 digests of the events of
\* EventInputs logged at millisecond 0.
EventHashes ==
  {Sha256(StringifyEvent(SecurityEventRow(e, 0))) : e \in EventInputs}

\* getProof(index), index counted from 0: at each level with a neighbour in
\* the pair of currentIndex, that neighbour.
RECURSIVE getProofOf(_, _)
getProofOf(level, currentIndex) ==
  IF Len(level) <= 1 THEN <<>>
  ELSE LET i == currentIndex - (currentIndex % 2)
           sibling == IF i + 1 < Len(level)
                      THEN <<IF i = currentIndex THEN level[i + 2]
                             ELSE level[i + 1]>>
                      ELSE <<>>
       IN sibling \o getProofOf(nextLevel(level), currentIndex \div 2)

getProof(data, index) == getProofOf(MerkleLeaves(data), index)

\* The loop of verifyAuditEntry from proof element n on.
RECURSIVE verifyFold(_, _, _)
verifyFold(computedHash, proof, n) ==
  IF n > Len(proof) THEN computedHash
  ELSE verifyFold(Keccak256(computedHash \o Keccak256(proof[n])), proof, n + 1)

\* SimpleAuditContract.verifyAuditEntry(entryHash, proof, merkleRoot)
verifyAuditEntry(entryHash, proof, merkleRoot) ==
  Keccak256(verifyFold(Keccak256(entryHash), proof, 1)) = Keccak256(merkleRoot)

\* new MerkleTree(data): every item is hashed into a leaf, and the constructor
\* throws at the first item.
MkNew(data) ==
  /\ mk' = IF \E i \in DOMAIN data : MerkleLeaves(data)[i] = TypeError
           THEN [MkIdle EXCEPT !.pc = "threw", !.data = data]
           ELSE [MkIdle EXCEPT !.pc = "tree", !.data = data]
  /\ UNCHANGED <<rlVars, scVars, vtVars, audit_logs, qVars, aNow,
                 audit_batches, pb, ac, aRequests, le, ba, bvVars>>

MkGetRoot ==
  /\ mk.pc = "tree"
  /\ mk' = [mk EXCEPT !.pc = "root", !.root = getRoot(mk.data)]
  /\ UNCHANGED <<rlVars, scVars, vtVars, audit_logs, qVars, aNow,
                 audit_batches, pb, ac, aRequests, le, ba, bvVars>>

\* getProof(index) of the tree; the index is not compared with the number of
\* leaves.
MkGetProof(index) ==
  /\ mk.pc = "root"
  /\ mk' = [mk EXCEPT !.pc = "proof", !.index = index,
                      !.proof = getProof(mk.data, index)]
  /\ UNCHANGED <<rlVars, scVars, vtVars, audit_logs, qVars, aNow,
                 audit_batches, pb, ac, aRequests, le, ba, bvVars>>

MkNext ==
  \/ \E data \in SeqsUpTo(EventHashes, MaxLeaves) : MkNew(data)
  \/ MkGetRoot
  \/ \E index \in 0..(MaxLeaves - 1) : MkGetProof(index)

SpecMerkle == AInit /\ [][MkNext]_vars

\* C17: for every non-empty list a tree is built, and for every index of it
\* the proof getProof returns verifies the leaf of that index against getRoot
\* under verifyAuditEntry.
C17_ProofVerifies ==
  /\ mk.pc = "threw" => mk.data = <<>>
  /\ (mk.pc = "proof" /\ mk.index < Len(mk.data))
       => verifyAuditEntry(MerkleLeaves(mk.data)[mk.index + 1], mk.proof,
                           mk.root)

\* ------------------------------------------------- the two kinds of rejection
\* verify-transcript and verify-with-limit side by side: a client address one
\* attempt below the threshold of the limiter, and a student one verification
\* below the limit.

RjInit ==
  /\ rlNow = 0
  /\ rate_limits =
       [k \in Keys |->
          IF k = ScKey
          THEN [present |-> TRUE, attempt_count |-> RateThreshold - 1,
                last_attempt_at |-> 0, blocked_until |-> NULL]
          ELSE NoRow]
  /\ rl = [c \in Callers |-> RlIdle]
  /\ rlCalls = 0
  /\ rlAllowed = [k \in Keys |-> 0]
  /\ scStart = 0
  /\ scLog = <<>>
  /\ scTimes = <<>>
  /\ vt = [h \in Handlers |-> VtIdle]
  /\ vtRequests = 0
  /\ audit_logs = <<>>
  /\ qNow = QsStart
  /\ students = [s \in Students |->
                   [Student0(QsLimit) EXCEPT !.verification_count = QsLimit - 1]]
  /\ verification_attempts =
       [i \in 1..(QsLimit - 1) |->
          [student_id |-> StudentId, verification_id |-> "VT-1-a",
           attempted_at |-> 0, success |-> TRUE]]
  /\ vw = [w \in Workers |-> VwIdle]
  /\ rs = RsIdle
  /\ qRequests = 0
  /\ qStats = QStats0
  /\ AIdleInit

RjVTReceive(h, vid, ip) ==
  /\ vtRequests < MaxRjRequests
  /\ VTReceive(h, vid, ip)

RjNext ==
  \/ \E h \in Handlers, vid \in VerificationIds, ip \in IpInputs :
        RjVTReceive(h, vid, ip)
  \/ \E h \in Handlers, rpcOk \in BOOLEAN : VTRateLimit(h, rpcOk)
  \/ \E h \in Handlers, dbError \in BOOLEAN, verified \in BOOLEAN :
        VTLookup(h, dbError, verified)
  \/ \E h \in Handlers, stored \in BOOLEAN : VTLogAudit(h, stored)
  \/ \E vid \in QIds, ipAddress \in QIpInputs, selectOk \in BOOLEAN :
        VWReceive(QsWorker, vid, ipAddress, selectOk)
  \/ \E ok \in BOOLEAN : VWLookup(QsWorker, ok)
  \/ VWLogNotFound(QsWorker)
  \/ \E stored \in BOOLEAN : VWLogExceeded(QsWorker, stored)
  \/ \E ok \in BOOLEAN : VWUpdate(QsWorker, ok)
  \/ \E stored \in BOOLEAN : VWLogSuccess(QsWorker, stored)
  \/ QsTick

SpecReject == RjInit /\ [][RjNext]_vars

\* The request of handler h was refused at the limiter: the rpc answered
\* false, or returned an error.
RateLimited(h) ==
  vt[h].pc = "done" /\ vt[h].rateLimitCheck \in {"false", "null"}

\* The request of worker w was refused for the student's quota: the count it
\* read was not below the limit it read (a limit read is 1 at least).
QuotaExceeded(w) ==
  /\ vw[w].pc = "done"
  /\ vw[w].verificationLimit > 0
  /\ vw[w].verificationCount >= vw[w].verificationLimit

SameMarkerAndMessage(a, b) ==
  /\ a.status = b.status
  /\ a.limitExceeded = b.limitExceeded
  /\ a.message = b.message

\* C20: the response to a rate-limited request and the response to a
\* quota-exceeded request never carry the same status marker and message:
\* the bodies the two handlers answered with differ in the status field, in
\* the limitExceeded field or in the text.
C20_RejectionsDistinct ==
  \A h \in Handlers, w \in Workers :
    (RateLimited(h) /\ QuotaExceeded(w))
      => ~SameMarkerAndMessage(vt[h].body, vw[w].body)

\* A request refused by the limiter for an address at the threshold, next to a
\* request refused for a student at the limit, each with the body of its
\* handler.
C20_Witness ==
  /\ RateLimited(1) /\ IsInet(vt[1].clientIP)
  /\ vt[1].rateLimitCheck = "false"
  /\ rate_limits[vt[1].clientIP].blocked_until # NULL
  /\ vt[1].http = 429 /\ vt[1].body.status = "rate_limited"
  /\ QuotaExceeded(QsWorker)
  /\ vw[QsWorker].verificationCount = QsLimit
  /\ vw[QsWorker].http = 429 /\ vw[QsWorker].body.limitExceeded

\* ------------------------------------------------------------------------
\* The limiter and the quota on the two verification endpoints.  Every
\* request of SpecReject is sent by the one client whose address is ScKey;
\* verify-with-limit takes the address as the ipAddress field of its body and
\* uses it in no test and in no query.

\* C21: a verify-with-limit request received while its client's key is
\* blocked is refused before the quota counter is read: the step that
\* receives it never leaves it at the student lookup.
C21_BlockedKeyRefusedBeforeQuota ==
  [][\A w \in Workers :
       (/\ SelectBlocked(rate_limits[ScKey], qNow) # NULL
        /\ vw[w].pc \in {"idle", "done"}
        /\ vw'[w] # vw[w])
         => vw'[w].pc # "lookup"]_vars

\* C22: a request is answered 200 verified, with its successful attempt
\* recorded, only if its increment of verification_count was stored; a
\* request whose update failed is not answered verified.
C22_VerifiedOnlyIfIncrementStored ==
  \A w \in Workers :
    (vw[w].pc = "done" /\ vw[w].verified) => ~vw[w].updateError

\* ------------------------------------------------------------------------
\* The two request paths that insert into audit_logs from an edge function:
\* log_event of blockchain-audit and the handler of blockchain-auth.

\* The user an AuthEvent names: body.userId, or the caller when the body
\* names none.
AuthUserIds == {"user-1", "u2"}

\* PBKDF2 of BLOCKCHAIN_SECRET_KEY with the fixed salt of blockchain-auth.
AuthDerivedKey == <<32>>

\* JSON.stringify(saltedData) in encryptAuthData: the AuthEvent, a random salt
\* and the time of encryption.
StringifyAuthEvent(userId, action, timestamp, salt, encryptedAt) ==
  Utf8(userId) \o Utf8(action) \o <<timestamp>> \o salt \o <<encryptedAt>>

\* encryptAuthData: AES-GCM under a fresh IV, the IV prepended.
encryptAuthData(userId, action, timestamp, encryptedAt, salt, iv) ==
  AesGcm(AuthDerivedKey, iv,
         StringifyAuthEvent(userId, action, timestamp, salt, encryptedAt))

\* createAuthTransaction without a blockchain: '0x' and the SHA-256 of the
\* encrypted event, the user and the timestamp.
SimulatedAuthTx(encryptedData, userId, timestamp) ==
  <<-6>> \o Sha256(encryptedData \o Utf8(userId) \o <<timestamp>>)

\* The hash of the n-th transaction the auth contract accepted.
AuthTxHash(n) == <<-7, n>>

\* INSERT INTO audit_logs: resource_type and resource_id are NOT NULL and have
\* no default.
InsertAuditLog(table, row) ==
  IF row.resource_type = NullText \/ row.resource_id = NullText
  THEN table
  ELSE Append(table, row)

\* The actions a blockchain-auth request may name.
AuthActions == {"status_check", "login"}

\* blockchain-auth: a status_check is answered before any authentication;
\* then the Authorization header and getUser; the event is stamped with
\* Date.now(), which was timestamp when the handler read it; initBlockchain
\* returns null when the RPC URL or the private key is not configured; the
\* event is encrypted with a fresh salt and IV, and encryptAuthData reads
\* Date.now() a second time.  The step is that second reading.
BAReceive(action, auth, configured, userId, timestamp, salt, iv) ==
  /\ ba.pc \in {"idle", "done"}
  /\ aRequests < MaxARequests
  /\ aRequests' = aRequests + 1
  /\ timestamp <= aNow
  /\ ba' = IF action = "status_check"
           THEN [BaIdle EXCEPT !.pc = "done", !.http = 200, !.success = TRUE]
           ELSE IF auth = "user"
           THEN [BaIdle EXCEPT !.pc = "transaction",
                               !.configured = configured,
                               !.userId = userId,
                               !.timestamp = timestamp,
                               !.encryptedData =
                                 encryptAuthData(userId, action, timestamp,
                                                 aNow, salt, iv)]
           ELSE [BaIdle EXCEPT !.pc = "done", !.http = AuthStatus(auth)]
  /\ UNCHANGED <<rlVars, scVars, vtVars, audit_logs, qVars, aNow,
                 audit_batches, pb, ac, mk, le, bvVars>>

\* createAuthTransaction: with a ac, recordAuthEvent is sent and
\* tx.wait() awaited; when that throws, the simulated hash is used.
BATransaction(sinkOk) ==
  /\ ba.pc = "transaction"
  /\ ba' = IF ~ba.configured
           THEN [ba EXCEPT !.pc = "insert",
                           !.blockchainTx =
                             SimulatedAuthTx(ba.encryptedData, ba.userId,
                                             ba.timestamp)]
           ELSE [ba EXCEPT !.pc = "insert",
                           !.sinkCalls = @ + 1,
                           !.blockchainTx = IF sinkOk
                                            THEN AuthTxHash(aRequests)
                                            ELSE SimulatedAuthTx(
                                                   ba.encryptedData,
                                                   ba.userId, ba.timestamp)]
  /\ UNCHANGED <<rlVars, scVars, vtVars, audit_logs, qVars, aNow,
                 audit_batches, pb, ac, aRequests, mk, le, bvVars>>

\* The audit_logs insert of blockchain-auth names no resource_type and no
\* resource_id; logError is logged and success is answered.
BAInsert ==
  /\ ba.pc = "insert"
  /\ LET row == [AuditRow("login", NullText, NullText, ba.timestamp)
                   EXCEPT !.blockchain_tx = ba.blockchainTx]
     IN  /\ audit_logs' = InsertAuditLog(audit_logs, row)
         /\ ba' = [ba EXCEPT !.pc = "done", !.http = 200, !.success = TRUE,
                             !.stored = (audit_logs' # audit_logs)]
  /\ UNCHANGED <<rlVars, scVars, vtVars, qVars, aNow, audit_batches, pb,
                 ac, aRequests, mk, le, bvVars>>

ApBAReceive(action, auth, configured, userId, timestamp, salt, iv) ==
  /\ aRequests < MaxApRequests
  /\ BAReceive(action, auth, configured, userId, timestamp, salt, iv)

ApNext ==
  \/ \E e \in EventInputs \cup SensitiveEvents, auth \in AuthInputs,
        stored \in BOOLEAN, t \in 0..MaxANow, encryptedAt \in 0..MaxANow,
        salt \in RandomSalts, iv \in RandomIvs :
        ApLogEvent(e, auth, stored, t, encryptedAt, salt, iv)
  \/ \E e \in EventInputs \cup SensitiveEvents : ApLogSecurityEvent(e)
  \/ \E action \in AuthActions, auth \in AuthInputs, configured \in BOOLEAN,
        userId \in AuthUserIds, timestamp \in 0..MaxANow,
        salt \in RandomSalts, iv \in RandomIvs :
        ApBAReceive(action, auth, configured, userId, timestamp, salt, iv)
  \/ \E sinkOk \in BOOLEAN : BATransaction(sinkOk)
  \/ BAInsert
  \/ ATick

SpecAppend == AInit /\ [][ApNext]_vars

\* C23: log_event answers success only when the audit event was stored.
C23_SuccessOnlyIfStored == le.success => le.stored

\* C24: no request that stores an audit event has called the anchoring sink
\* by the time it stores the event: neither log_event, nor blockchain-auth
\* when it issues its audit_logs insert.
C24_NoSinkCallBeforeAppend ==
  /\ le.stored => le.sinkCalls = 0
  /\ ba.pc = "insert" => ba.sinkCalls = 0

\* C25: a verify-transcript request with no client identifier is limited
\* under the key "unknown" like under any other key: while that key is not
\* blocked and has fewer than RateThreshold attempts in the window, the
\* limiter lets the request through to the transcript lookup.
C25_UnknownKeyAllowedUnderThreshold ==
  [][\A h \in Handlers :
       (/\ vt[h].pc = "rate_limit"
        /\ vt[h].clientIP = "unknown"
        /\ vt'[h] # vt[h]
        /\ SelectBlocked(rate_limits["unknown"], rlNow) = NULL
        /\ SumRecent(rate_limits["unknown"], rlNow) < RateThreshold)
         => vt'[h].pc = "lookup"]_vars

\* The columns of an audit_logs row other than its details, its timestamp
\* and its encrypted_data.
QueryColumns(row) ==
  [action |-> row.action, resource_type |-> row.resource_type,
   resource_id |-> row.resource_id, severity |-> row.severity]

\* C27: the plaintext details column of a stored event never holds sensitive
\* details, which are kept in encrypted_data only: two stored events that
\* differ only in their sensitive details have the same plaintext details.
C27_SensitiveDetailsOnlyEncrypted ==
  /\ \A i \in DOMAIN audit_logs :
        audit_logs[i].details \notin SensitiveDetails
  /\ \A i, j \in DOMAIN audit_logs :
        QueryColumns(audit_logs[i]) = QueryColumns(audit_logs[j])
          => audit_logs[i].details = audit_logs[j].details

\* C28: the drain of process_batch takes at most BatchLimit rows, only rows
\* whose blockchain_tx is null when it reads them, in ascending created_at
\* order and each once, and with a row every pending row created before it.
C28_DrainTakesOldestPending ==
  [][\A w \in BatchWorkers :
       (pb[w].pc \in {"idle", "done"} /\ pb'[w].pc = "last_batch")
         => LET taken == pb'[w].pendingLogs
                ids == {taken[k] : k \in DOMAIN taken}
                pending == {j \in DOMAIN audit_logs :
                              audit_logs[j].blockchain_tx = NullText}
            IN  /\ Len(taken) <= BatchLimit
                /\ ids \subseteq pending
                /\ Cardinality(ids) = Len(taken)
                /\ \A k \in 1..(Len(taken) - 1) :
                     audit_logs[taken[k]].created_at
                       <= audit_logs[taken[k + 1]].created_at
                /\ \A j \in pending \ ids, i \in ids :
                     audit_logs[j].created_at
                       >= audit_logs[i].created_at]_vars

\* A drain of a table with more than BatchLimit pending rows: BatchLimit rows
\* were taken, the row stored last among them for its early created_at, and
\* a row stored before it left behind.
C28_Witness ==
  \E w \in BatchWorkers :
    LET taken == pb[w].pendingLogs
        ids == {taken[k] : k \in DOMAIN taken}
        pending == {i \in DOMAIN audit_logs :
                      audit_logs[i].blockchain_tx = NullText}
    IN  /\ pb[w].pc = "last_batch"
        /\ Len(taken) = BatchLimit
        /\ Cardinality(pending) > BatchLimit
        /\ (BatchLimit + 1) \in ids
        /\ \E i \in pending : i <= BatchLimit /\ i \notin ids

\* C29: a Merkle tree over zero leaves yields no root: getRoot never returns
\* for an empty tree.
C29_NoRootOfEmptyTree == mk.pc = "root" => mk.data # <<>>

\* The other half of C29, which holds: a process_batch request that read no
\* pending row builds no batch, persists none and marks no row.
EmptyDrainPersistsNothing ==
  \A w \in BatchWorkers :
    pb[w].pendingLogs = <<>> => pb[w].pc \in {"idle", "done"}

\* ------------------------------------------------------------------------
\* Duplicate suppression next to other recent attempts.  A student at the
\* limit was refused RecentLimit times in the second QsStart (each refusal
\* left a failed attempt); the institution may reset the student, and the
\* transcript is verified again.
DdInit ==
  /\ rlNow = 0
  /\ rate_limits = [k \in Keys |-> NoRow]
  /\ rl = [c \in Callers |-> RlIdle]
  /\ rlCalls = 0
  /\ rlAllowed = [k \in Keys |-> 0]
  /\ scStart = 0
  /\ scLog = <<>>
  /\ scTimes = <<>>
  /\ vt = [h \in Handlers |-> VtIdle]
  /\ vtRequests = 0
  /\ audit_logs = <<>>
  /\ qNow = QsStart
  /\ students = [s \in Students |->
                   [Student0(QsLimit) EXCEPT !.verification_count = QsLimit]]
  /\ verification_attempts =
       [i \in 1..(QsLimit + RecentLimit) |->
          [student_id |-> StudentId, verification_id |-> "VT-1-a",
           attempted_at |-> IF i <= QsLimit THEN 0 ELSE QsStart,
           success |-> i <= QsLimit]]
  /\ vw = [w \in Workers |-> VwIdle]
  /\ rs = RsIdle
  /\ qRequests = 0
  /\ qStats = QStats0
  /\ AIdleInit

DdNext ==
  \/ \E vid \in QFoundIds, ipAddress \in QIpInputs, selectOk \in BOOLEAN :
        VWReceive(QsWorker, vid, ipAddress, selectOk)
  \/ \E ok \in BOOLEAN : VWLookup(QsWorker, ok)
  \/ VWLogNotFound(QsWorker)
  \/ \E stored \in BOOLEAN : VWLogExceeded(QsWorker, stored)
  \/ \E ok \in BOOLEAN : VWUpdate(QsWorker, ok)
  \/ \E stored \in BOOLEAN : VWLogSuccess(QsWorker, stored)
  \/ \E userOk \in BOOLEAN, institutionOk \in BOOLEAN,
        studentOk \in BOOLEAN :
        RSReceive("owner", userOk, institutionOk, studentOk)
  \/ \E ok \in BOOLEAN : RSUpdate(ok)
  \/ \E stored \in BOOLEAN : RSLog(stored)
  \/ QsTick

SpecDedup == DdInit /\ [][DdNext]_vars

\* C30: a request received within SuppressWindow seconds of a successful
\* attempt for the same verification id is suppressed, whatever other
\* attempts were recorded for that id in the window.
C30_RepeatAlwaysSuppressed ==
  [][\A w \in Workers :
       (/\ vw[w].pc \in {"idle", "done"}
        /\ vw'[w] # vw[w]
        /\ recentSuccess(RecentRows(vw'[w].verificationId, qNow)))
         => vw'[w].suppressed]_vars

\* ------------------------------------------------------------------------
\* C32: a call for a key whose row has blocked_until later than the time of
\* the call returns FALSE and leaves the row (attempt_count, last_attempt_at,
\* blocked_until) as it was.
C32_BlockedCallLeavesRow ==
  [][(/\ rlCalls' = rlCalls + 1
      /\ SelectBlocked(rate_limits[ScKey], rlNow') # NULL)
       => /\ rate_limits'[ScKey] = rate_limits[ScKey]
          /\ scLog' = Append(scLog, FALSE)]_vars

\* A call refused 59 minutes after the block was set: the row still has the
\* count and the last_attempt_at of the call that set the block.
C32_Witness ==
  /\ scLog # <<>>
  /\ ~scLog[Len(scLog)]
  /\ SelectBlocked(rate_limits[ScKey], rlNow) # NULL
  /\ rate_limits[ScKey].last_attempt_at < rlNow
  /\ rate_limits[ScKey].attempt_count = RateThreshold + 1

\* C34: when the rate-limit rpc returns an error and no decision,
\* verify-transcript answers 429 rate_limited at once: the request makes no
\* transcript lookup and writes no audit event, whatever its client address.
C34_LimiterErrorFailsClosed ==
  [][\A h \in Handlers :
       /\ (vt[h].pc = "rate_limit" /\ vt'[h].rateLimitCheck = "null")
            => /\ vt'[h].pc = "done"
               /\ vt'[h].status = "rate_limited"
               /\ vt'[h].http = 429
               /\ audit_logs' = audit_logs
       /\ vt'[h].rateLimitCheck = "null"
            => /\ vt'[h].pc = "done"
               /\ vt'[h].logged = 0]_vars

\* A well-formed request from a valid client address that the limiter holds
\* no block for: the rpc returned an error, and the request was answered 429
\* rate_limited with nothing logged.
C34_Witness ==
  \E h \in Handlers :
    /\ vt[h].pc = "done"
    /\ ValidFormat(vt[h].verification_id)
    /\ IsInet(vt[h].clientIP)
    /\ vt[h].rateLimitCheck = "null"
    /\ SelectBlocked(rate_limits[vt[h].clientIP], rlNow) = NULL
    /\ vt[h].status = "rate_limited"
    /\ vt[h].http = 429
    /\ vt[h].logged = 0

\* ------------------------------------------------------------------------
\* The reference construction of the tree, by position: node i of the next
\* level is the hash of nodes 2i-1 and 2i, or node 2i-1 itself when there is
\* no node 2i.
RefNext(level) ==
  [i \in 1..((Len(level) + 1) \div 2) |->
     IF 2 * i <= Len(level)
     THEN Sha256(level[2 * i - 1] \o level[2 * i])
     ELSE level[2 * i - 1]]

\* All levels, from the leaves to the level of one node.
RECURSIVE RefLevels(_)
RefLevels(level) ==
  IF Len(level) <= 1 THEN <<level>>
  ELSE <<level>> \o RefLevels(RefNext(level))

RefRoot(leaves) == RefLevels(leaves)[Len(RefLevels(leaves))][1]

\* The siblings of the node at (0-based) position pos of level k and of its
\* ancestors, bottom up; a node with no sibling adds nothing.
RECURSIVE RefProofFrom(_, _, _)
RefProofFrom(levels, pos, k) ==
  IF k >= Len(levels) THEN <<>>
  ELSE LET sib == IF pos % 2 = 0 THEN pos + 1 ELSE pos - 1
       IN  (IF sib < Len(levels[k]) THEN <<levels[k][sib + 1]>> ELSE <<>>)
             \o RefProofFrom(levels, pos \div 2, k + 1)

RefProof(leaves, index) == RefProofFrom(RefLevels(leaves), index, 1)

\* C35: for every non-empty leaf list a tree is built and getRoot returns the
\* root of the reference construction (adjacent nodes paired left to right,
\* an unpaired last node carried up unchanged, a single leaf its own root),
\* and getProof returns the siblings along the same levels.
C35_RootAndProofMatchReference ==
  /\ mk.data # <<>> => mk.pc # "threw"
  /\ (mk.pc \in {"root", "proof", "verified"} /\ mk.data # <<>>)
       => mk.root = RefRoot(MerkleLeaves(mk.data))
  /\ (mk.pc = "root" /\ Len(mk.data) = 1) => mk.root = hash(mk.data[1])
  /\ mk.pc \in {"proof", "verified"}
       => mk.proof = RefProof(MerkleLeaves(mk.data), mk.index)

\* C36: the limit a request applies is the limit stored for the student,
\* also when that is 0, and no request for a student whose limit is 0 is
\* answered verified.
C36_ConfiguredLimitApplied ==
  \A w \in Workers :
    LET sid == StudentOf(vw[w].verificationId)
    IN  /\ vw[w].pc \in {"update", "log_exceeded", "log_success"}
             => vw[w].verificationLimit = students[sid].verification_limit
        /\ (vw[w].pc = "done" /\ vw[w].verified)
             => students[sid].verification_limit # 0

\* ---------------------------------------------------------------------
\* blockchain-verify: the limiter the function keeps in its own memory.

\* limit and window of checkRateLimit.
VerifyLimit == 10
VerifyWindow == 60000

MaxBvCalls == 12
MaxBvOtherCalls == 1
MaxBvPauses == 2

\* The waits between two requests: up to the reset time, and just past it.
BvPauses == {VerifyWindow, VerifyWindow + 1}

\* checkRateLimit with the count test "count > limit".
checkRateLimitOffByOne(map, client, now) ==
  LET clientData == map[client]
  IN  IF ~clientData.present \/ now > clientData.resetTime
      THEN [map |-> [map EXCEPT ![client] =
                       [present |-> TRUE, count |-> 1,
                        resetTime |-> now + VerifyWindow]],
            allowed |-> TRUE]
      ELSE IF clientData.count > VerifyLimit
      THEN [map |-> map, allowed |-> FALSE]
      ELSE [map |-> [map EXCEPT ![client].count = @ + 1],
            allowed |-> TRUE]

\* checkRateLimit(clientIP) called at time now: the map afterwards and the
\* answer.
checkRateLimit(map, client, now) ==
  LET clientData == map[client]
  IN  IF ~clientData.present \/ now > clientData.resetTime
      THEN [map |-> [map EXCEPT ![client] =
                       [present |-> TRUE, count |-> 1,
                        resetTime |-> now + VerifyWindow]],
            allowed |-> TRUE]
      ELSE IF clientData.count >= VerifyLimit
      THEN [map |-> map, allowed |-> FALSE]
      ELSE [map |-> [map EXCEPT ![client].count = @ + 1],
            allowed |-> TRUE]

BvCallsOf(log, k) == Cardinality({i \in DOMAIN log : log[i].key = k})

BvPausesMade(log) ==
  Cardinality({i \in DOMAIN log :
                 log[i].t > (IF i = 1 THEN 0 ELSE log[i - 1].t)})

\* A request reaches the handler after a wait of pause milliseconds: the
\* handler calls checkRateLimit(clientIP) and answers 429 on false.
BVRateLimit(client, pause) ==
  LET r == checkRateLimit(rateLimitMap, client, bvNow + pause)
  IN  /\ BvCallsOf(bvLog, client)
           < (IF client = ScKey THEN MaxBvCalls ELSE MaxBvOtherCalls)
      /\ pause # 0 => BvPausesMade(bvLog) < MaxBvPauses
      /\ bvNow' = bvNow + pause
      /\ rateLimitMap' = r.map
      /\ bvLog' = Append(bvLog, [key |-> client, t |-> bvNow + pause,
                                 allowed |-> r.allowed])
      /\ UNCHANGED <<rlVars, scVars, vtVars, audit_logs, qVars, aNow,
                     audit_batches, pb, ac, aRequests, mk, le, ba>>

BvInit ==
  /\ rlNow = 0
  /\ rate_limits = [k \in Keys |-> NoRow]
  /\ rl = [c \in Callers |-> RlIdle]
  /\ rlCalls = 0
  /\ rlAllowed = [k \in Keys |-> 0]
  /\ scStart = 0
  /\ scLog = <<>>
  /\ scTimes = <<>>
  /\ VTIdleInit

BvNext ==
  \E client \in Keys, pause \in {0} \cup BvPauses :
    BVRateLimit(client, pause)

SpecBV == BvInit /\ [][BvNext]_vars

\* The allowed calls of client k in the log between times from and to.
BvAllowedIn(log, k, from, to) ==
  Cardinality({i \in DOMAIN log :
                 /\ log[i].key = k
                 /\ log[i].allowed
                 /\ log[i].t >= from
                 /\ log[i].t <= to})

\* C37: in one process, checkRateLimit allows at most 10 calls of a client
\* between the start of the client's window and its resetTime; a denied call
\* leaves the client's count and resetTime as they were; the first call after
\* resetTime is allowed and restarts the count at 1; and a call of one client
\* never changes the entry of another client.
C37_AtMostLimitPerWindow ==
  [][bvLog' # bvLog =>
       LET e == bvLog'[Len(bvLog')]
           old == rateLimitMap[e.key]
           new == rateLimitMap'[e.key]
       IN  /\ new.present =>
                BvAllowedIn(bvLog', e.key, new.resetTime - VerifyWindow,
                            new.resetTime) <= VerifyLimit
           /\ ~e.allowed => new = old
           /\ (old.present /\ e.t > old.resetTime) =>
                /\ e.allowed
                /\ new.count = 1
                /\ new.resetTime = e.t + VerifyWindow
           /\ \A k \in Keys \ {e.key} : rateLimitMap'[k] = rateLimitMap[k]
    ]_vars

\* A client was denied inside a window, another client called meanwhile, and
\* the first client's first call after its resetTime was allowed with count 1.
C37_Witness ==
  /\ bvLog # <<>>
  /\ LET e == bvLog[Len(bvLog)]
     IN  /\ e.key = ScKey
         /\ e.allowed
         /\ rateLimitMap[ScKey].count = 1
         /\ \E i \in DOMAIN bvLog :
              /\ bvLog[i].key = ScKey
              /\ ~bvLog[i].allowed
              /\ bvLog[i].t < e.t
         /\ \E i \in DOMAIN bvLog : bvLog[i].key # ScKey

\* ---------------------------------------------------------------------
\* A reset that lands between the read and the write of a verification.

\* Worker w has read a count above 0 and has not yet written, and the stored
\* count is 0: only the update of a reset stores 0, so a reset has completed
\* since w read.
ResetSinceRead(w) ==
  /\ vw[w].pc = "update"
  /\ vw[w].verificationCount >= 1
  /\ students[StudentOf(vw[w].verificationId)].verification_count = 0

\* C38: a reset is not lost to a verification in flight: when a reset of the
\* student has completed between a request's read of verification_count and
\* its write, then once the request has written too the stored count is at
\* most 1.
C38_ResetNotLost ==
  [][\A w \in Workers :
        (ResetSinceRead(w) /\ vw'[w].pc # "update")
          => students'[StudentId].verification_count <= 1]_vars

\* ---------------------------------------------------------------------
\* The attempt rows of verify-with-limit.

\* C39: every verification request that is not suppressed as a duplicate
\* writes exactly one verification_attempts row, in the step that follows
\* its lookup and limit test and answers it, with success equal to the
\* verified of the answer and no row at any other step of the request; and no
\* step ever changes or removes a row that is already there.
C39_OneAttemptRowPerRequest ==
  [][/\ Len(verification_attempts') >= Len(verification_attempts)
     /\ \A i \in DOMAIN verification_attempts :
          verification_attempts'[i] = verification_attempts[i]
     /\ \A w \in Workers :
          vw'[w] # vw[w] =>
            IF vw'[w].pc = "done" /\ ~vw'[w].suppressed
            THEN /\ Len(verification_attempts')
                      = Len(verification_attempts) + 1
                 /\ LET row ==
                          verification_attempts'[Len(verification_attempts')]
                    IN  /\ row.verification_id = vw'[w].verificationId
                        /\ row.success = vw'[w].verified
            ELSE verification_attempts' = verification_attempts]_vars

====
